---- MODULE Spec2Model ----
(***************************************************************************)
(* Drill-motion analysis engine: the canvas-hash analyzer                  *)
(* (RealVideoAnalyzer, second definition of src/unnamed/part_004).         *)
(*                                                                         *)
(* Numbers.  Seconds, motion scores, similarities and confidences are      *)
(* exact rationals <<numerator, denominator>> in lowest terms; the code    *)
(* uses IEEE doubles, whose rounding is not modelled.                      *)
(* Pictures.  A picture is [w, h, lv]: a w x h raster made of 8 x 8 cells  *)
(* of one grey level each (R = G = B = lv[cell]), cells in row-major       *)
(* order.  The videos offered to the analyzer are no larger than the       *)
(* canvas limits, so drawImage copies the picture unscaled.                *)
(***************************************************************************)
EXTENDS Integers, Sequences, FiniteSets, TLC

VARIABLES
    mode,        \* which family of videos the environment offers
    frames,      \* RealVideoAnalyzer.frames
    canvas,      \* RealVideoAnalyzer.canvas: <<width, height>>
    pc,          \* position of the current analyzeVideo call
    video,       \* the video element of the current call
    idx,         \* extractFrames: loop variable i
    totalFrames, \* extractFrames: totalFrames
    captured,    \* frames pushed by the current call
    presented,   \* the picture the video element presents
    seeked,      \* per frame pushed by the current call: did its seek deliver 'seeked'
    log,         \* the settled calls of this analyzer, oldest first
    dedupIn,     \* deduplicateRepetitions alone: the list it is given
    dedupOut,    \* deduplicateRepetitions alone: the list it returns
    dedupDone,   \* deduplicateRepetitions alone: whether it has returned
    surface,     \* VideoLoopCreator.canvas: size, content, the pass that last sized it
    pass,        \* the createLoop / createThumbnail calls made on one VideoLoopCreator
    playback,    \* one createLoop call on a VideoLoopCreatorAlternative
    pose,        \* one analyzeVideo call on a VideoAnalyzer (pose landmarks)
    simple,      \* one analyzeVideo call on a SimpleVideoAnalyzer
    upload,      \* the state of the Upload page and the drill records it has built
    storage,     \* MemStorage: drills, workouts, the ids randomUUID has returned
    instance     \* a VideoAnalyzer instance and the analyzeVideo calls made on it

avars == <<mode, frames, canvas, pc, video, idx, totalFrames, captured, presented,
           seeked, log>>
dvars == <<dedupIn, dedupOut, dedupDone>>
rvars == <<surface, pass>>
ovars == <<playback, pose, simple>>
xvars == <<upload, storage, instance>>
vars == <<avars, dvars, rvars, ovars, xvars>>
NotAnalyzer == <<dvars, rvars, ovars, xvars>>
NotDedup == <<avars, rvars, ovars, xvars>>
NotRender == <<avars, dvars, ovars, xvars>>
NotPlayback == <<avars, dvars, rvars, pose, simple, xvars>>
NotPose == <<avars, dvars, rvars, playback, simple, xvars>>
NotSimple == <<avars, dvars, rvars, playback, pose, xvars>>
NotUpload == <<avars, dvars, rvars, ovars, storage, instance>>
NotStorage == <<avars, dvars, rvars, ovars, upload, instance>>
NotInstance == <<avars, dvars, rvars, ovars, upload, storage>>

----------------------------------------------------------------------------
(* Bounds of the model *)

MaxCalls == 2      \* analyzeVideo calls made on one analyzer
SegCount == 4      \* movement segments of a composed video
MaxRaw == 3        \* raw candidates handed to deduplicateRepetitions alone
MaxIdx == 6        \* largest frame index in those candidates
SeekFrames == 5    \* frames of the longest clip whose seeks may time out
MaxLoopFrames == 2 \* frames of the longest loop handed to createLoop
MaxPoseFrames == 3 \* frames of the longest clip handed to the pose analyzer
MaxSimpleFrames == 7 \* frames of the longest clip handed to the simple analyzer
MaxRisingFrames == 30 \* frames of the longest clip of rising motion
MaxSmallFrames == 3 \* frames of the longest clip of a small video
MaxVideoFiles == 2 \* video files the user may choose from on the Upload page
MaxPoseCalls == 2 \* analyzeVideo calls made on one VideoAnalyzer instance
MaxPasses == 2 \* times 'canplaythrough' is delivered for one video
MaxInstanceFrames == 2 \* frames of the longest clip handed to that instance
MaxIds == 4            \* ids that randomUUID returns to one MemStorage
MaxDrillIds == 2       \* entries of the longest drillIds list a caller passes

(* Program constants *)

frameRate == 10
maxFrames == 300
maxCanvasWidth == 320
maxCanvasHeight == 240
blockSize == 8
sampleRate == 16
dedupTolerance == 5
minWindow == 5

----------------------------------------------------------------------------
(* Exact rationals *)

RECURSIVE GCD(_, _)
GCD(a, b) == IF b = 0 THEN a ELSE GCD(b, a % b)

Rat(n, d) == IF n = 0 THEN <<0, 1>> ELSE LET g == GCD(n, d) IN <<n \div g, d \div g>>

RLt(a, b) == a[1] * b[2] < b[1] * a[2]
RLe(a, b) == a[1] * b[2] <= b[1] * a[2]
RAdd(a, b) == Rat(a[1] * b[2] + b[1] * a[2], a[2] * b[2])
RSub(a, b) == Rat(a[1] * b[2] - b[1] * a[2], a[2] * b[2])
RMul(a, b) == Rat(a[1] * b[1], a[2] * b[2])

Zero == <<0, 1>>

Min(a, b) == IF a < b THEN a ELSE b
Abs(x) == IF x < 0 THEN 0 - x ELSE x

\* y, with x computed first: keeps the evaluation of a loop's running value shallow
After(x, y) == IF x = x THEN y ELSE y

\* Math.ceil(d * k) for a rational d >= 0 and a natural k
CeilMul(d, k) == (d[1] * k + d[2] - 1) \div d[2]

\* Math.floor(d * k)
FloorMul(d, k) == (d[1] * k) \div d[2]

----------------------------------------------------------------------------
(* Fingerprint and motion scorer *)

CellsX(img) == (img.w + blockSize - 1) \div blockSize

\* Grey level of pixel number p (row-major) of the picture
PixelAt(img, p) ==
    img.lv[((p \div img.w) \div blockSize) * CellsX(img) + ((p % img.w) \div blockSize) + 1]

\* Sum over the block's pixels of (R + G + B) / 3, and the pixel count
BlockSum(img, bx, by) == (blockSize * blockSize) * img.lv[by * CellsX(img) + bx + 1]
BlockCount == blockSize * blockSize

\* calculateFrameHash: one bit per complete block, row-major
calculateFrameHash(img) ==
    LET blocksX == img.w \div blockSize
        blocksY == img.h \div blockSize
    IN  [k \in 1..(blocksX * blocksY) |->
            LET bx == (k - 1) % blocksX
                by == (k - 1) \div blocksX
            IN  IF BlockSum(img, bx, by) > 128 * BlockCount THEN 1 ELSE 0]

\* totalDiff over the samples k .. n-1 (the loop, split in halves)
RECURSIVE TotalDiff(_, _, _, _)
TotalDiff(p1, p2, k, n) ==
    IF k >= n THEN 0
    ELSE IF n = k + 1
    THEN 3 * Abs(PixelAt(p1, k * sampleRate) - PixelAt(p2, k * sampleRate))
    ELSE LET mid == (k + n) \div 2
         IN  TotalDiff(p1, p2, k, mid) + TotalDiff(p1, p2, mid, n)

\* calculateMotion: every 16th pixel, |dR| + |dG| + |dB|, averaged, over 765.
\* Both buffers have the same size in this model.
calculateMotion(pixels1, pixels2) ==
    LET samples == (pixels1.w * pixels1.h + sampleRate - 1) \div sampleRate
    IN  IF samples > 0
        THEN Rat(TotalDiff(pixels1, pixels2, 0, samples), samples * 765)
        ELSE Zero

----------------------------------------------------------------------------
(* Repetition detector *)

\* this.frames[i], i counted from 0 as in the code
At(fr, i) == fr[i + 1]

\* this.frames.slice(a, b).map(f => f.hash)
HashSlice(fr, a, b) == [k \in 1..(IF b > a THEN b - a ELSE 0) |-> fr[a + k].hash]

Distance(hash1, hash2) == Cardinality({j \in 1..Len(hash1) : hash1[j] # hash2[j]})

\* frameSimilarity > 0.7, frameSimilarity = 1 - distance / hash1.length
\* (an empty hash gives NaN, which is not > 0.7)
FrameMatches(hash1, hash2) ==
    /\ Len(hash1) > 0
    /\ 10 * (Len(hash1) - Distance(hash1, hash2)) > 7 * Len(hash1)

\* comparePatterns without the length test: the shorter pattern is compared
\* with the beginning of the longer one
comparePatternsPrefix(pattern1, pattern2) ==
    LET n == IF Len(pattern1) < Len(pattern2) THEN Len(pattern1) ELSE Len(pattern2)
    IN  IF n = 0 THEN Zero
        ELSE Rat(Cardinality({k \in 1..n : FrameMatches(pattern1[k], pattern2[k])}), n)

\* comparePatterns: the fraction of aligned frame pairs that match
comparePatterns(pattern1, pattern2) ==
    IF Len(pattern1) # Len(pattern2) THEN Zero
    ELSE Rat(Cardinality({k \in 1..Len(pattern1) : FrameMatches(pattern1[k], pattern2[k])}),
             Len(pattern1))

\* the three window sizes, those below 5 frames filtered out
WindowSizes(n) == SelectSeq(<<n \div 15, n \div 10, n \div 5>>, LAMBDA w : w >= minWindow)

motionThreshold == <<1, 20>>
similarityThreshold == <<3, 4>>

\* a cycle start wherever the motion is above the threshold and rising
IsCycleStartAnyRise(fr, i) ==
    /\ RLt(motionThreshold, At(fr, i).motion)
    /\ RLt(At(fr, i).motion, At(fr, i + 1).motion)

IsCycleStart(fr, i) ==
    /\ RLt(At(fr, i - 1).motion, motionThreshold)
    /\ RLt(motionThreshold, At(fr, i).motion)
    /\ RLt(At(fr, i).motion, At(fr, i + 1).motion)

\* cycleStarts: ascending frame indices i, 1 <= i < frames.length - 1
CycleStarts(fr) ==
    SelectSeq([k \in 1..(IF Len(fr) > 2 THEN Len(fr) - 2 ELSE 0) |-> k],
              LAMBDA i : IsCycleStart(fr, i))

\* Whether the pair of cycle starts (start1, start2) is recorded for windowSize
Similar(fr, start1, start2, windowSize) ==
    LET end1 == Min(start1 + windowSize, Len(fr))
        end2 == Min(start2 + windowSize, Len(fr))
    IN  RLt(similarityThreshold,
            comparePatterns(HashSlice(fr, start1, end1), HashSlice(fr, start2, end2)))

\* the pairs (i, j), i < j, of positions in cycleStarts that are before row i
PairsBefore(i, k) == ((i - 1) * (2 * k - i)) \div 2

\* the p-th pair visited by the loops over i and j
PairAt(p, k) ==
    LET i == CHOOSE r \in 1..(k - 1) : PairsBefore(r, k) < p /\ p <= PairsBefore(r + 1, k)
    IN  <<i, i + (p - PairsBefore(i, k))>>

\* the loops over i and j of one window size: the pairs pushed, in order
RawForWindow(fr, cs, windowSize) ==
    LET k == Len(cs)
        visited == [p \in 1..(IF k > 1 THEN PairsBefore(k, k) ELSE 0) |->
                       <<cs[PairAt(p, k)[1]], cs[PairAt(p, k)[2]]>>]
    IN  SelectSeq(visited, LAMBDA pr : Similar(fr, pr[1], pr[2], windowSize))

RECURSIVE RawFrom(_, _, _, _)
RawFrom(fr, cs, ws, k) ==
    IF k > Len(ws) THEN <<>>
    ELSE RawForWindow(fr, cs, ws[k]) \o RawFrom(fr, cs, ws, k + 1)

\* allRepetitions when the loop over the window sizes has ended
AllRepetitions(fr) == RawFrom(fr, CycleStarts(fr), WindowSizes(Len(fr)), 1)

\* isDuplicate with the two ends joined by "or"
IsDuplicateEitherEnd(unique, rep) ==
    \E k \in 1..Len(unique) :
        \/ Abs(unique[k][1] - rep[1]) < dedupTolerance
        \/ Abs(unique[k][2] - rep[2]) < dedupTolerance

IsDuplicate(unique, rep) ==
    \E k \in 1..Len(unique) :
        /\ Abs(unique[k][1] - rep[1]) < dedupTolerance
        /\ Abs(unique[k][2] - rep[2]) < dedupTolerance

\* the loop over reps[lo .. hi], started with the list unique (split in halves)
RECURSIVE DedupRange(_, _, _, _)
DedupRange(reps, lo, hi, unique) ==
    IF lo > hi THEN unique
    ELSE IF lo = hi
    THEN (IF IsDuplicate(unique, reps[lo]) THEN unique ELSE Append(unique, reps[lo]))
    ELSE LET mid == (lo + hi) \div 2
             first == DedupRange(reps, lo, mid, unique)
         IN  After(first, DedupRange(reps, mid + 1, hi, first))

deduplicateRepetitions(reps) == DedupRange(reps, 1, Len(reps), <<>>)

findRepetitions(fr) == deduplicateRepetitions(AllRepetitions(fr))

----------------------------------------------------------------------------
(* Key frames, loop selector, confidence estimator *)

\* sortedMotion[k], k from 0: the k-th smallest motion value
KthSmallest(fr, k) ==
    LET at == CHOOSE i \in 1..Len(fr) :
                /\ Cardinality({j \in 1..Len(fr) : RLt(fr[j].motion, fr[i].motion)}) <= k
                /\ k < Cardinality({j \in 1..Len(fr) : RLe(fr[j].motion, fr[i].motion)})
    IN  fr[at].motion

IsPeak(fr, i, threshold) ==
    /\ RLt(threshold, At(fr, i).motion)
    /\ RLt(At(fr, i - 1).motion, At(fr, i).motion)
    /\ RLt(At(fr, i + 1).motion, At(fr, i).motion)

\* findKeyFrames: local motion peaks above the 75th percentile
findKeyFrames(fr) ==
    LET threshold == KthSmallest(fr, (3 * Len(fr)) \div 4)
    IN  SelectSeq([k \in 1..(IF Len(fr) > 2 THEN Len(fr) - 2 ELSE 0) |-> k],
                  LAMBDA i : IsPeak(fr, i, threshold))

\* how many candidates have a duration within 5 frames of this one
ConsistencyScore(reps, duration) ==
    Cardinality({k \in 1..Len(reps) : Abs((reps[k][2] - reps[k][1]) - duration) < 5})

\* sum of the motion of frames a .. b-1 (halving keeps the evaluation shallow)
RECURSIVE MotionSum(_, _, _)
MotionSum(fr, a, b) ==
    IF a >= b THEN Zero
    ELSE IF b = a + 1 THEN At(fr, a).motion
    ELSE LET mid == (a + b) \div 2
             left == MotionSum(fr, a, mid)
             right == MotionSum(fr, mid, b)
         IN  RAdd(left, right)

\* the score with the motion of the section summed, not averaged
ScoreTotalMotion(fr, reps, rep) ==
    LET duration == rep[2] - rep[1]
    IN  RMul(<<ConsistencyScore(reps, duration), 1>>, MotionSum(fr, rep[1], rep[2]))

\* score = consistencyScore * avgMotion
Score(fr, reps, rep) ==
    LET duration == rep[2] - rep[1]
        avgMotion == LET sum == MotionSum(fr, rep[1], rep[2])
                     IN  Rat(sum[1], sum[2] * duration)
    IN  RMul(<<ConsistencyScore(reps, duration), 1>>, avgMotion)

\* the loop over repetitions[lo .. hi], started with best (split in halves)
RECURSIVE BestRange(_, _, _, _, _)
BestRange(fr, reps, lo, hi, best) ==
    IF lo > hi THEN best
    ELSE IF lo = hi
    THEN LET score == Score(fr, reps, reps[lo])
         IN  IF RLt(best.score, score)
             THEN [start |-> reps[lo][1], end |-> reps[lo][2], score |-> score]
             ELSE best
    ELSE LET mid == (lo + hi) \div 2
             first == BestRange(fr, reps, lo, mid, best)
         IN  After(first, BestRange(fr, reps, mid + 1, hi, first))

\* findBestLoop with "score >= bestScore": the last candidate of maximal score
findBestLoopLastOnTie(fr, repetitions) ==
    IF Len(repetitions) = 0
    THEN [loopStart |-> FloorMul(<<1, 5>>, Len(fr)), loopEnd |-> FloorMul(<<4, 5>>, Len(fr))]
    ELSE LET last == CHOOSE k \in 1..Len(repetitions) :
                        /\ \A j \in 1..Len(repetitions) :
                               RLe(Score(fr, repetitions, repetitions[j]),
                                   Score(fr, repetitions, repetitions[k]))
                        /\ \A j \in (k + 1)..Len(repetitions) :
                               RLt(Score(fr, repetitions, repetitions[j]),
                                   Score(fr, repetitions, repetitions[k]))
         IN  [loopStart |-> repetitions[last][1], loopEnd |-> repetitions[last][2]]

\* findBestLoop with the fallback window taken at one and three quarters
findBestLoopQuarters(fr, repetitions) ==
    IF Len(repetitions) = 0
    THEN [loopStart |-> FloorMul(<<1, 4>>, Len(fr)), loopEnd |-> FloorMul(<<3, 4>>, Len(fr))]
    ELSE LET best == BestRange(fr, repetitions, 1, Len(repetitions),
                              [start |-> repetitions[1][1], end |-> repetitions[1][2],
                               score |-> Zero])
         IN  [loopStart |-> best.start, loopEnd |-> best.end]

\* findBestLoop: frame indices
findBestLoop(fr, repetitions) ==
    IF Len(repetitions) = 0
    THEN [loopStart |-> FloorMul(<<1, 5>>, Len(fr)), loopEnd |-> FloorMul(<<4, 5>>, Len(fr))]
    ELSE LET best == BestRange(fr, repetitions, 1, Len(repetitions),
                              [start |-> repetitions[1][1], end |-> repetitions[1][2],
                               score |-> Zero])
         IN  [loopStart |-> best.start, loopEnd |-> best.end]

\* calculateConfidence with the top tier starting at two repetitions
calculateConfidenceFromTwo(repetitions) ==
    IF Len(repetitions) = 0 THEN <<3, 10>>
    ELSE IF Len(repetitions) = 1 THEN <<3, 5>>
    ELSE IF Len(repetitions) >= 2 THEN <<9, 10>>
    ELSE <<3, 4>>

calculateConfidence(repetitions) ==
    IF Len(repetitions) = 0 THEN <<3, 10>>
    ELSE IF Len(repetitions) = 1 THEN <<3, 5>>
    ELSE IF Len(repetitions) >= 3 THEN <<9, 10>>
    ELSE <<3, 4>>

ZeroResult ==
    [duration |-> Zero, repetitions |-> 0, keyFrames |-> <<>>,
     loopStart |-> Zero, loopEnd |-> Zero, confidence |-> Zero, poses |-> <<>>]

\* x || y on numbers: y when x is 0
OrElse(x, y) == IF x = Zero THEN y ELSE x

\* analyzeFrames with the guard widened to a single frame
analyzeFramesGuardOne(fr, duration) ==
    IF Len(fr) <= 1 THEN ZeroResult
    ELSE LET repetitions == findRepetitions(fr)
             loop == findBestLoop(fr, repetitions)
         IN  [duration |-> duration,
              repetitions |-> Len(repetitions),
              keyFrames |-> findKeyFrames(fr),
              loopStart |-> OrElse(At(fr, Min(loop.loopStart, Len(fr) - 1)).time, Zero),
              loopEnd |-> OrElse(At(fr, Min(loop.loopEnd, Len(fr) - 1)).time, duration),
              confidence |-> calculateConfidence(repetitions),
              poses |-> <<>>]

\* analyzeFrames(duration) on the frame list fr
analyzeFrames(fr, duration) ==
    IF Len(fr) = 0 THEN ZeroResult
    ELSE LET repetitions == findRepetitions(fr)
             loop == findBestLoop(fr, repetitions)
         IN  [duration |-> duration,
              repetitions |-> Len(repetitions),
              keyFrames |-> findKeyFrames(fr),
              loopStart |-> OrElse(At(fr, Min(loop.loopStart, Len(fr) - 1)).time, Zero),
              loopEnd |-> OrElse(At(fr, Min(loop.loopEnd, Len(fr) - 1)).time, duration),
              confidence |-> calculateConfidence(repetitions),
              poses |-> <<>>]

----------------------------------------------------------------------------
(* The videos the environment offers *)

Pic(lv) == [w |-> 32, h |-> 8, lv |-> lv]

Still == Pic(<<0, 0, 0, 0>>)
Rise1 == Pic(<<30, 0, 0, 0>>)
Rise2 == Pic(<<120, 0, 0, 0>>)
Alt1 == Pic(<<30, 255, 0, 255>>)
Alt2 == Pic(<<120, 255, 0, 255>>)
Near2 == Pic(<<120, 255, 0, 0>>)
Bright == Pic(<<255, 255, 255, 255>>)

\* A video: whether it can be opened, its duration in seconds, and its
\* pictures, one per tenth of a second, repeated when the video is longer.
Video(dur, pat) == [ok |-> TRUE, dur |-> dur, w |-> 32, h |-> 8, pat |-> pat]
Unreadable == [ok |-> FALSE, dur |-> Zero, w |-> 0, h |-> 0, pat |-> <<>>]
NoVideo == [ok |-> FALSE, dur |-> Zero, w |-> -1, h |-> -1, pat |-> <<>>]

\* the picture the video presents at time t (seconds)
PictureAt(v, t) == v.pat[(FloorMul(t, 10) % Len(v.pat)) + 1]

SegA == <<Still, Still, Rise1, Rise2>>
SegB == <<Still, Still, Alt1, Alt2>>
SegC == <<Still, Still, Rise1, Near2>>
SegS == <<Still, Still, Still, Still>>
SegKinds == {SegA, SegB, SegC, SegS}
StillTail == <<Still, Still, Still, Still, Still, Still, Still, Still, Still>>

RECURSIVE Flatten(_, _)
Flatten(segs, k) == IF k > Len(segs) THEN <<>> ELSE segs[k] \o Flatten(segs, k + 1)

\* SegCount movement segments followed by a still tail
ComposedVideos ==
    {LET pat == Flatten(segs, 1) \o StillTail IN Video(Rat(Len(pat), 10), pat) :
        segs \in [1..SegCount -> SegKinds]}

\* long enough for all three window sizes
LongVideos ==
    {Video(<<15, 2>>, SegA \o SegS), Video(<<8, 1>>, SegA \o SegC \o SegS \o SegB)}

DetectVideos == ComposedVideos \cup LongVideos \cup {Unreadable, Video(Zero, <<Still>>)}

ReuseVideos ==
    {Unreadable,
     Video(Zero, <<Still>>),
     Video(<<1, 20>>, <<Still>>),
     Video(<<1, 5>>, <<Still, Bright>>),
     Video(<<1, 1>>, <<Still, Bright, Rise1>>),
     Video(<<5, 2>>, SegA \o SegS),
     Video(<<31, 1>>, <<Still>>)}

\* short clips of distinct pictures, for the seeks that time out
SeekVideos ==
    {Unreadable,
     Video(Zero, <<Still>>),
     Video(<<3, 10>>, <<Rise1, Bright, Alt1>>),
     Video(Rat(SeekFrames, 10), SubSeq(<<Rise1, Rise2, Bright, Alt1, Alt2, Near2, Still>>,
                                       1, SeekFrames))}

\* n still pictures
Stills(n) == [k \in 1..n |-> Still]

\* the pattern started k pictures later
Rotate(pat, k) == [j \in 1..Len(pat) |-> pat[((j - 1 + k) % Len(pat)) + 1]]

\* one cycle of 2 seconds: stillness, one movement that sets in and rises,
\* stillness again
Cycles ==
    {core \o Stills(20 - Len(core)) :
        core \in {SegA, SegB, SegC, SegA \o <<Rise1>>, SegB \o <<Bright, Alt1>>}}

\* 10-second clips whose pictures repeat every 2 seconds, cut at any phase
CycleVideos ==
    {Video(<<10, 1>>, Rotate(cycle, k)) : cycle \in Cycles, k \in 0..19} \cup {Unreadable}

\* grey levels of n pictures, the k-th differing from the one before it by
\* step * k: downwards where the level allows it, upwards otherwise
RECURSIVE RisingLevels(_, _, _)
RisingLevels(levels, n, step) ==
    IF Len(levels) >= n THEN levels
    ELSE LET x == levels[Len(levels)]
             d == step * Len(levels)
         IN  RisingLevels(Append(levels, IF x - d >= 0 THEN x - d ELSE x + d), n, step)

\* clips whose pictures change more from each frame to the next, and two
\* clips of another kind
RisingVideos ==
    {LET levels == RisingLevels(<<0>>, n, step)
     IN  Video(Rat(n, 10), [k \in 1..n |-> Pic(<<levels[k], levels[k], levels[k], levels[k]>>)]) :
        n \in {1, 2, 14, 25, MaxRisingFrames}, step \in 1..3}
    \cup {Unreadable, Video(<<5, 2>>, SegA \o SegS), Video(<<3, 1>>, <<Still, Rise1, Still>>)}

\* a w x h picture of the given cell levels
PicOf(w, h, lv) == [w |-> w, h |-> h, lv |-> lv]

\* short clips of a video of w x h pixels whose pictures are drawn from pics
ClipsOf(w, h, pics) ==
    {[ok |-> TRUE, dur |-> Rat(Len(pat), 10), w |-> w, h |-> h, pat |-> pat] :
        pat \in UNION {[1..m -> pics] : m \in 1..MaxSmallFrames}}

\* videos of 4 x 4, 8 x 8 and 16 x 8 pixels
SmallVideos ==
    ClipsOf(4, 4, {PicOf(4, 4, <<0>>), PicOf(4, 4, <<200>>)})
    \cup ClipsOf(8, 8, {PicOf(8, 8, <<0>>), PicOf(8, 8, <<200>>)})
    \cup ClipsOf(16, 8, {PicOf(16, 8, <<0, 0>>), PicOf(16, 8, <<200, 0>>), PicOf(16, 8, <<200, 200>>)})
    \cup {Unreadable}

Pool(m) == IF m = "reuse" THEN ReuseVideos
           ELSE IF m = "seek" THEN SeekVideos
           ELSE IF m = "cycle" THEN CycleVideos
           ELSE IF m = "rising" THEN RisingVideos
           ELSE IF m = "small" THEN SmallVideos
           ELSE DetectVideos
CallLimit(m) == IF m = "reuse" THEN MaxCalls ELSE 1

\* the canvas after its width and height are set: cleared
Blank == Pic(<<0, 0, 0, 0>>)

\* seekToTime resolves on 'seeked' (TRUE) or on its 100 ms timer (FALSE); the
\* long runs of the other families are explored with every seek completing
SeekOutcomes(m) == IF m = "seek" THEN BOOLEAN ELSE {TRUE}

\* what the video element presents when metadata has loaded: nothing yet, or
\* already its first picture
FirstPresented(m, v) == IF m = "seek" THEN {Blank, PictureAt(v, Zero)} ELSE {Blank}

\* the calls that may be in progress on one VideoLoopCreator
Passes == {1, 2}

\* What a video of a render pass presents is told apart by the pass and the
\* time sought; by = 0 is a canvas nothing was drawn on since it was sized
NoImage == [by |-> 0, at |-> Zero]

\* drawImage copying nothing but the cleared canvas after a timed-out seek
DrawnBlankOnTimeout(ok, shown, target) == IF ok THEN target ELSE Blank

\* the picture drawImage copies once seekToTime has resolved: the target of
\* the seek when it completed, else what the element still presents
Drawn(ok, shown, target) == IF ok THEN target ELSE shown

----------------------------------------------------------------------------
(* analyzeVideo on one RealVideoAnalyzer *)

Settled(kind, result) ==
    [video |-> video, kind |-> kind, result |-> result,
     read |-> Len(frames'), captured |-> captured']

Idle ==
    /\ frames = <<>>
    /\ canvas = <<300, 150>>
    /\ pc = "idle"
    /\ video = NoVideo
    /\ idx = 0
    /\ totalFrames = 0
    /\ captured = 0
    /\ presented = Blank
    /\ seeked = <<>>
    /\ log = <<>>

NoDedup == dedupIn = <<>> /\ dedupOut = <<>> /\ dedupDone = FALSE

\* a VideoLoopCreator after construction: a default canvas, no call made
NoPass ==
    [kind |-> "none", st |-> "idle", v |-> NoVideo, start |-> Zero, end |-> Zero,
     total |-> 0, i |-> 0, waiting |-> FALSE, timers |-> {}, shown |-> NoImage,
     failed |-> FALSE,
     seeks |-> <<>>, lframes |-> <<>>, frameTimes |-> <<>>,
     totalLoopFrames |-> 0, frameIndex |-> 0, requested |-> FALSE,
     handed |-> <<>>, encoded |-> <<>>, created |-> FALSE, recorder |-> "inactive",
     overallTimeout |-> "unset", outcome |-> "pending", blob |-> <<>>]

NoRender ==
    /\ surface = [w |-> 300, h |-> 150, img |-> NoImage, sizedBy |-> 0]
    /\ pass = [p \in Passes |-> NoPass]

\* a VideoLoopCreatorAlternative on which createLoop has not been called
NoPlayback ==
    playback = [st |-> "idle", v |-> NoVideo, start |-> Zero, end |-> Zero,
                canvas |-> [w |-> 300, h |-> 150, at |-> <<-1, 1>>],
                created |-> FALSE, recorder |-> "inactive", stopEvents |-> 0,
                seeking |-> FALSE, starting |-> FALSE, rendering |-> FALSE,
                playing |-> FALSE, elapsed |-> Zero, currentTime |-> Zero,
                shown |-> Zero, timer |-> "unset", outcome |-> "pending"]

\* a VideoAnalyzer on which analyzeVideo has not been called
NoPose ==
    pose = [st |-> "idle", v |-> NoVideo, canvas |-> <<300, 150>>,
            timeout |-> "unset", outcome |-> "pending", delivered |-> <<>>,
            built |-> <<>>, currentTime |-> Zero, processedFrames |-> 0,
            maxFrames |-> 0, videoTime |-> Zero, seeks |-> <<>>, drawn |-> 0,
            poses |-> <<>>]

\* analysisData = null; the notes field as the form starts
NoAnalysis == [of |-> 0, duration |-> 0, repetitions |-> 0, confidence |-> 0]
NoNotes == [kind |-> "empty", of |-> 0]

\* a SimpleVideoAnalyzer on which analyzeVideo has not been called
NoSimple ==
    simple = [st |-> "idle", v |-> NoVideo, canvas |-> <<300, 150>>,
              currentTime |-> Zero, maxFrames |-> 0, frameData |-> <<>>,
              shown |-> Blank, outcome |-> "pending", delivered |-> <<>>,
              options |-> <<>>]

\* the Upload page as first rendered
NoUpload ==
    upload = [step |-> "upload", videoFile |-> 0, analysisData |-> NoAnalysis,
              processedVideo |-> 0, thumbnailBlob |-> 0,
              formData |-> [name |-> 0, category |-> FALSE, notes |-> NoNotes],
              reached |-> "none", mutation |-> <<>>]

\* new MemStorage()
NoStorage == storage = [drills |-> <<>>, workouts |-> <<>>, issued |-> 0]

\* a call that has not been made
PoseCalls == 1..MaxPoseCalls
NoCall ==
    [st |-> "idle", v |-> NoVideo, ready |-> FALSE, videoTime |-> Zero,
     timeout |-> "unset", outcome |-> "pending", delivered |-> <<>>,
     maxFrames |-> 0, passes |-> <<>>, frames |-> <<>>]

\* new VideoAnalyzer(): arrays[c] is the array that call c assigns to
\* this.poses, current the call that last assigned this.poses and this.video
NoInstance ==
    instance = [arrays |-> [c \in PoseCalls |-> <<>>], current |-> 0,
                calls |-> [c \in PoseCalls |-> NoCall]]

Elsewhere ==
    NoDedup /\ NoRender /\ NoPlayback /\ NoPose /\ NoSimple /\ NoUpload /\ NoStorage /\ NoInstance

Init == mode = "reuse" /\ Idle /\ Elsewhere

InitDetect == mode = "detect" /\ Idle /\ Elsewhere

InitSeek == mode = "seek" /\ Idle /\ Elsewhere

InitCycle == mode = "cycle" /\ Idle /\ Elsewhere

InitRising == mode = "rising" /\ Idle /\ Elsewhere

InitSmall == mode = "small" /\ Idle /\ Elsewhere

\* new RealVideoAnalyzer(): the caller goes on with a fresh analyzer
Construct ==
    /\ pc = "idle"
    /\ Len(log) > 0
    /\ frames' = <<>>
    /\ canvas' = <<300, 150>>
    /\ log' = <<>>
    /\ video' = NoVideo
    /\ idx' = 0
    /\ totalFrames' = 0
    /\ captured' = 0
    /\ presented' = Blank
    /\ seeked' = <<>>
    /\ UNCHANGED <<mode, pc>>

\* analyzeVideo(videoFile): a video element is created and given the file
AnalyzeVideo(v) ==
    /\ pc = "idle"
    /\ Len(log) < CallLimit(mode)
    /\ video' = v
    /\ pc' = "loading"
    /\ idx' = 0
    /\ totalFrames' = 0
    /\ captured' = 0
    /\ presented' = Blank
    /\ seeked' = <<>>
    /\ UNCHANGED <<mode, frames, canvas, log>>

\* video.onerror
LoadError ==
    /\ pc = "loading"
    /\ ~video.ok
    /\ pc' = "idle"
    /\ UNCHANGED <<mode, frames, canvas, video, idx, totalFrames, captured, presented, seeked>>
    /\ log' = Append(log, Settled("rejected", ZeroResult))

\* extractFrames: totalFrames
TotalFrames(duration) == Min(CeilMul(duration, frameRate), maxFrames)

\* video.onloadedmetadata: the canvas is sized and extractFrames runs up to its
\* first seek; with no frame to extract the analysis follows at once
LoadedMetadata ==
    /\ pc = "loading"
    /\ video.ok
    /\ canvas' = <<Min(video.w, maxCanvasWidth), Min(video.h, maxCanvasHeight)>>
    /\ totalFrames' = TotalFrames(video.dur)
    /\ idx' = 0
    /\ presented' \in FirstPresented(mode, video)
    /\ UNCHANGED <<mode, frames, video, captured, seeked>>
    /\ IF totalFrames' = 0
       THEN /\ pc' = "idle"
            /\ log' = Append(log, Settled("resolved", analyzeFrames(frames, video.dur)))
       ELSE /\ pc' = "extracting"
            /\ log' = log

\* the frame pushed by iteration i of extractFrames
FrameTime(v, i, total) == Rat(i * v.dur[1], v.dur[2] * total)

NewFrame(fr, v, i, total, imageData) ==
    LET time == FrameTime(v, i, total)
    IN  [time |-> time,
         hash |-> calculateFrameHash(imageData),
         motion |-> IF i > 0 THEN calculateMotion(At(fr, i - 1).pixels, imageData) ELSE Zero,
         pixels |-> imageData]

\* the seek of iteration idx has completed: the frame is drawn, read, scored
\* and pushed; then the next seek is issued, or the frames are analyzed
CaptureFrame ==
    /\ pc = "extracting"
    /\ idx < totalFrames
    /\ \E ok \in SeekOutcomes(mode) :
           /\ presented' = Drawn(ok, presented,
                                 PictureAt(video, FrameTime(video, idx, totalFrames)))
           /\ seeked' = Append(seeked, ok)
    /\ frames' = Append(frames, NewFrame(frames, video, idx, totalFrames, presented'))
    /\ captured' = captured + 1
    /\ idx' = idx + 1
    /\ UNCHANGED <<mode, canvas, video, totalFrames>>
    /\ IF idx + 1 < totalFrames
       THEN /\ pc' = "extracting"
            /\ log' = log
       ELSE /\ pc' = "idle"
            /\ log' = Append(log, Settled("resolved", analyzeFrames(frames', video.dur)))

Next ==
    \/ Construct /\ UNCHANGED NotAnalyzer
    \/ \E v \in Pool(mode) : AnalyzeVideo(v) /\ UNCHANGED NotAnalyzer
    \/ LoadError /\ UNCHANGED NotAnalyzer
    \/ LoadedMetadata /\ UNCHANGED NotAnalyzer
    \/ CaptureFrame /\ UNCHANGED NotAnalyzer

Spec == Init /\ [][Next]_vars
SpecDetect == InitDetect /\ [][Next]_vars
SpecCycle == InitCycle /\ [][Next]_vars
SpecRising == InitRising /\ [][Next]_vars
SpecSmall == InitSmall /\ [][Next]_vars

\* every timer and every media event that is due is delivered
SpecSeek ==
    /\ InitSeek /\ [][Next]_vars
    /\ WF_vars(LoadError /\ UNCHANGED NotAnalyzer)
    /\ WF_vars(LoadedMetadata /\ UNCHANGED NotAnalyzer)
    /\ WF_vars(CaptureFrame /\ UNCHANGED NotAnalyzer)

----------------------------------------------------------------------------
(* deduplicateRepetitions on its own: any list of raw candidates            *)
(* [start1, start2], start1 < start2 as findRepetitions pushes them         *)

RawPairs == {pr \in (0..MaxIdx) \X (0..MaxIdx) : pr[1] < pr[2]}
RawLists == UNION {[1..n -> RawPairs] : n \in 0..MaxRaw}

InitDedup ==
    /\ mode = "dedup"
    /\ Idle
    /\ NoRender
    /\ NoPlayback
    /\ NoPose
    /\ NoSimple
    /\ NoUpload
    /\ NoStorage
    /\ NoInstance
    /\ dedupIn \in RawLists
    /\ dedupOut = <<>>
    /\ dedupDone = FALSE

Deduplicate ==
    /\ mode = "dedup"
    /\ ~dedupDone
    /\ dedupOut' = deduplicateRepetitions(dedupIn)
    /\ dedupDone' = TRUE
    /\ UNCHANGED dedupIn
    /\ UNCHANGED NotDedup

NextDedup == Deduplicate

SpecDedup == InitDedup /\ [][NextDedup]_vars

----------------------------------------------------------------------------
(* VideoLoopCreator (second definition of src/unnamed/part_003): createLoop  *)
(* collects the frames of the loop, then encodes them three times over;      *)
(* createThumbnail draws one frame.  Both use the creator's one canvas.      *)
(* MediaRecorder.stop() on an inactive recorder does nothing, as the         *)
(* recording specification has it; captureStream(0) delivers a frame to the  *)
(* recorder when the canvas is next rendered after track.requestFrame().     *)

renderFps == 30
loopPlays == 3
thumbnailWidth == 320

\* Math.ceil(duration * fps) for the loop [startTime, endTime]
LoopFrames(startTime, endTime) == CeilMul(RSub(endTime, startTime), renderFps)

\* the frame time taken one frame late
SeekTimeNext(startTime, i) == RAdd(startTime, Rat(i + 1, renderFps))

\* frameTime = startTime + (i / fps)
SeekTime(startTime, i) == RAdd(startTime, Rat(i, renderFps))

\* the bounds check of extractAndLoop
\* the bounds check with the end of the video left out
ValidBoundsNoEnd(v, startTime, endTime) ==
    ~(RLt(startTime, Zero) \/ RLe(RSub(endTime, startTime), Zero))

ValidBounds(v, startTime, endTime) ==
    ~(RLt(startTime, Zero) \/ RLt(v.dur, endTime) \/ RLe(RSub(endTime, startTime), Zero))

\* the times a caller may pass, on a grid of sixtieths of a second
GridTimes == {Rat(k, 60) : k \in {-1, 0, 2, 6, 7}}

RenderVideo == [ok |-> TRUE, dur |-> <<1, 10>>, w |-> 32, h |-> 8, pat |-> <<>>]
OtherVideo == [ok |-> TRUE, dur |-> <<1, 10>>, w |-> 16, h |-> 8, pat |-> <<>>]
RenderVideos == {RenderVideo, Unreadable}

\* the loops offered to createLoop: any pair of grid times, accepted or not,
\* that asks for at most MaxLoopFrames frames
LoopSpecs ==
    {sp \in GridTimes \X GridTimes :
        RLt(sp[1], sp[2]) => LoopFrames(sp[1], sp[2]) <= MaxLoopFrames}

\* with two calls in progress, each loop is one of a single frame
SharedSpecs == {<<Zero, <<1, 30>>>>, <<<<1, 30>>, <<1, 15>>>>}

\* ctx.drawImage(video, ...): the presented picture, or nothing when the video
\* has none to present
DrawVideo(sf, shown) == IF shown = NoImage THEN sf ELSE [sf EXCEPT !.img = shown]

\* ctx.getImageData(0, 0, canvas.width, canvas.height)
GetImageData(sf) == [img |-> sf.img, w |-> sf.w, h |-> sf.h, sizedBy |-> sf.sizedBy]

\* canvas.width = w; canvas.height = h (the canvas is cleared)
Resize(w, h, p) == [w |-> w, h |-> h, img |-> NoImage, sizedBy |-> p]

\* one call of encodeFrame; <<pass record, canvas>> afterwards
EncodeFrame(q, sf) ==
    IF q.frameIndex >= q.totalLoopFrames
    THEN <<[q EXCEPT !.st = "finished",
                     !.recorder = IF @ = "recording" THEN "stopping" ELSE @], sf>>
    ELSE LET pos == q.frameIndex % Len(q.lframes)
             frame == q.lframes[pos + 1]
         IN  <<[q EXCEPT !.handed = Append(@, [pos |-> pos, img |-> frame.img]),
                         !.requested = TRUE,
                         !.frameIndex = @ + 1],
               [sf EXCEPT !.img = frame.img]>>

\* collectFrames from the point where the wait for seek i ends: the next seek
\* is issued, or the recorder is started and the first frame encoded
AfterSeek(q, sf) ==
    IF q.i + 1 < q.total
    THEN <<[q EXCEPT !.i = @ + 1,
                     !.waiting = TRUE,
                     !.timers = @ \cup {q.i + 1},
                     !.seeks = Append(@, SeekTime(q.start, q.i + 1))], sf>>
    ELSE EncodeFrame([q EXCEPT !.st = "encoding",
                               !.waiting = FALSE,
                               !.recorder = "recording",
                               !.totalLoopFrames = Len(q.lframes) * loopPlays,
                               !.frameIndex = 0], sf)

\* the frame is drawn and stored with its frame time
StoreFrame(q, sf, k) ==
    [q EXCEPT !.lframes = Append(@, GetImageData(sf)),
              !.frameTimes = Append(@, SeekTime(q.start, k))]

Started(p) == pass[p].kind # "none"

\* createLoop(videoFile, startTime, endTime)
CreateLoop(p, v, startTime, endTime) ==
    /\ mode \in {"render", "shared"}
    /\ ~Started(p)
    /\ p = 1 \/ (mode = "shared" /\ Started(1))
    /\ pass' = [pass EXCEPT ![p] = [NoPass EXCEPT !.kind = "loop", !.st = "loading",
                                                  !.v = v, !.start = startTime,
                                                  !.end = endTime]]
    /\ UNCHANGED surface

\* createThumbnail(videoFile, time)
CreateThumbnail(p, v, time) ==
    /\ mode = "shared"
    /\ ~Started(p)
    /\ p # 1 /\ Started(1)
    /\ pass' = [pass EXCEPT ![p] = [NoPass EXCEPT !.kind = "thumbnail", !.st = "loading",
                                                  !.v = v, !.start = time]]
    /\ UNCHANGED surface

\* video.onerror
RenderLoadError(p) ==
    /\ pass[p].st = "loading"
    /\ ~pass[p].v.ok
    /\ pass' = [pass EXCEPT ![p].st = "closed", ![p].outcome = "load error"]
    /\ UNCHANGED surface

\* createLoop's video.onloadedmetadata: the canvas takes the video's size and
\* extractAndLoop runs up to its first wait
LoopLoaded(p) ==
    LET q == pass[p] IN
    /\ q.kind = "loop" /\ q.st = "loading" /\ q.v.ok
    /\ surface' = Resize(q.v.w, q.v.h, p)
    /\ IF ~ValidBounds(q.v, q.start, q.end)
       THEN pass' = [pass EXCEPT ![p].st = "closed", ![p].outcome = "invalid bounds"]
       ELSE pass' = [pass EXCEPT ![p] =
                        [q EXCEPT !.st = "collecting",
                                  !.created = TRUE,
                                  !.overallTimeout = "armed",
                                  !.total = LoopFrames(q.start, q.end),
                                  !.i = 0,
                                  !.waiting = TRUE,
                                  !.timers = {0},
                                  !.seeks = <<SeekTime(q.start, 0)>>]]

\* onSeeked of the seek collectFrames waits for
LoopSeeked(p) ==
    LET q == pass[p]
        shown == [by |-> p, at |-> SeekTime(q.start, q.i)]
        drawn == DrawVideo(surface, shown)
        next == AfterSeek(StoreFrame([q EXCEPT !.shown = shown], drawn, q.i), drawn)
    IN  /\ q.st = "collecting" /\ q.waiting /\ ~q.failed
        /\ pass' = [pass EXCEPT ![p] = next[1]]
        /\ surface' = next[2]

\* onError of the seek collectFrames waits for: the video element has failed
\* and completes no seek from then on
LoopSeekError(p) ==
    LET q == pass[p]
        drawn == DrawVideo(surface, q.shown)
        next == AfterSeek(StoreFrame([q EXCEPT !.failed = TRUE], drawn, q.i), drawn)
    IN  /\ q.st = "collecting" /\ q.waiting /\ ~q.failed
        /\ pass' = [pass EXCEPT ![p] = next[1]]
        /\ surface' = next[2]

\* the 500 ms timer set with seek k (it is never cleared); timers run in the
\* order they were set
LoopSeekTimer(p) ==
    LET q == pass[p] IN
    /\ q.timers # {}
    /\ LET k == CHOOSE x \in q.timers : \A y \in q.timers : x <= y
           drawn == DrawVideo(surface, q.shown)
           stored == StoreFrame([q EXCEPT !.timers = @ \ {k}], drawn, k)
           next == IF q.st = "collecting" /\ q.waiting /\ q.i = k
                   THEN AfterSeek(stored, drawn)
                   ELSE <<stored, drawn>>
       IN  /\ pass' = [pass EXCEPT ![p] = next[1]]
           /\ surface' = next[2]

\* the timer that runs encodeFrame again, one frame interval after the last
\* run: the canvas has been rendered in between
LoopEncode(p) ==
    LET next == EncodeFrame(pass[p], surface) IN
    /\ pass[p].st = "encoding"
    /\ ~pass[p].requested
    /\ pass' = [pass EXCEPT ![p] = next[1]]
    /\ surface' = next[2]

\* the canvas is rendered: a requested frame goes to the stream
StreamFrame(p) ==
    /\ pass[p].requested
    /\ pass' = [pass EXCEPT ![p].requested = FALSE,
                            ![p].encoded = IF pass[p].recorder = "recording"
                                           THEN Append(@, GetImageData(surface))
                                           ELSE @]
    /\ UNCHANGED surface

\* recorder.ondataavailable, then recorder.onstop
RecorderStopped(p) ==
    LET q == pass[p] IN
    /\ q.recorder = "stopping"
    /\ pass' = [pass EXCEPT ![p] =
                   [q EXCEPT !.recorder = "inactive",
                             !.overallTimeout = IF @ = "armed" THEN "cleared" ELSE @,
                             !.outcome = IF @ = "pending" THEN "blob" ELSE @,
                             !.blob = IF q.outcome = "pending" THEN q.encoded ELSE @]]
    /\ UNCHANGED surface

\* the 30 s timer of extractAndLoop
OverallTimeout(p) ==
    LET q == pass[p] IN
    /\ q.overallTimeout = "armed"
    /\ pass' = [pass EXCEPT ![p] =
                   [q EXCEPT !.overallTimeout = "fired",
                             !.recorder = IF @ = "recording" THEN "stopping" ELSE @,
                             !.outcome = IF @ = "pending" THEN "timeout" ELSE @]]
    /\ UNCHANGED surface

\* createThumbnail's video.onloadedmetadata
ThumbnailLoaded(p) ==
    LET q == pass[p] IN
    /\ q.kind = "thumbnail" /\ q.st = "loading" /\ q.v.ok
    /\ surface' = Resize(thumbnailWidth, (thumbnailWidth * q.v.h) \div q.v.w, p)
    /\ pass' = [pass EXCEPT ![p].st = "collecting", ![p].waiting = TRUE,
                            ![p].seeks = <<q.start>>]

\* createThumbnail's video.onseeked: the frame is drawn and canvas.toBlob
\* takes its copy
ThumbnailSeeked(p) ==
    LET q == pass[p]
        drawn == DrawVideo(surface, [by |-> p, at |-> q.start])
    IN  /\ q.kind = "thumbnail" /\ q.st = "collecting" /\ q.waiting
        /\ surface' = drawn
        /\ pass' = [pass EXCEPT ![p].st = "closed", ![p].waiting = FALSE,
                                ![p].outcome = "blob",
                                ![p].blob = <<GetImageData(drawn)>>]

NextRender ==
    \/ \E p \in Passes, v \in RenderVideos, sp \in LoopSpecs :
           CreateLoop(p, IF p = 1 THEN v ELSE OtherVideo, sp[1], sp[2])
           /\ UNCHANGED NotRender
    \/ \E p \in Passes : RenderLoadError(p) /\ UNCHANGED NotRender
    \/ \E p \in Passes : LoopLoaded(p) /\ UNCHANGED NotRender
    \/ \E p \in Passes : LoopSeeked(p) /\ UNCHANGED NotRender
    \/ \E p \in Passes : LoopSeekError(p) /\ UNCHANGED NotRender
    \/ \E p \in Passes : LoopSeekTimer(p) /\ UNCHANGED NotRender
    \/ \E p \in Passes : LoopEncode(p) /\ UNCHANGED NotRender
    \/ \E p \in Passes : StreamFrame(p) /\ UNCHANGED NotRender
    \/ \E p \in Passes : RecorderStopped(p) /\ UNCHANGED NotRender
    \/ \E p \in Passes : OverallTimeout(p) /\ UNCHANGED NotRender

InitRender == mode = "render" /\ Idle /\ Elsewhere

SpecRender == InitRender /\ [][NextRender]_vars

\* two calls in progress on one VideoLoopCreator, up to the first timer
NextShared ==
    \/ \E p \in Passes, sp \in SharedSpecs :
           CreateLoop(p, IF p = 1 THEN RenderVideo ELSE OtherVideo, sp[1], sp[2])
           /\ UNCHANGED NotRender
    \/ \E p \in Passes : LoopLoaded(p) /\ UNCHANGED NotRender
    \/ \E p \in Passes : LoopSeeked(p) /\ UNCHANGED NotRender
    \/ \E p \in Passes : LoopEncode(p) /\ UNCHANGED NotRender
    \/ \E p \in Passes : StreamFrame(p) /\ UNCHANGED NotRender
    \/ \E p \in Passes : RecorderStopped(p) /\ UNCHANGED NotRender
    \/ \E p \in Passes : CreateThumbnail(p, OtherVideo, Zero) /\ UNCHANGED NotRender
    \/ \E p \in Passes : ThumbnailLoaded(p) /\ UNCHANGED NotRender
    \/ \E p \in Passes : ThumbnailSeeked(p) /\ UNCHANGED NotRender

InitShared == mode = "shared" /\ Idle /\ Elsewhere

SpecShared == InitShared /\ [][NextShared]_vars

----------------------------------------------------------------------------
(* VideoLoopCreatorAlternative (src/unnamed/part_006): createLoop records    *)
(* the canvas while the video plays the loop three times over.  Times are    *)
(* in seconds where the code has milliseconds.  A stop event the recorder    *)
(* has queued is delivered before the next animation frame; the chunks of    *)
(* the blob are not modelled.                                                *)

loopCount == 3
seekTolerance == <<1, 10>>

RAbs(a) == <<Abs(a[1]), a[2]>>

\* a % b for rationals a >= 0, b > 0
RMod(a, b) == RSub(a, RMul(<<(a[1] * b[2]) \div (a[2] * b[1]), 1>>, b))

PlayVideo == [ok |-> TRUE, dur |-> <<1, 2>>, w |-> 32, h |-> 8, pat |-> <<>>]
PlayVideos == {PlayVideo, Unreadable}

\* the loop bounds a caller may pass, accepted or not
PlayTimes == {Rat(k, 10) : k \in {-1, 0, 3, 5, 6}}

\* the time between two animation frames
FrameSteps == {<<1, 10>>, <<1, 5>>}

\* a promise settles once: resolve and reject do nothing afterwards
SettleAgain(outcome, new) == new

Settle(outcome, new) == IF outcome = "pending" THEN new ELSE outcome

\* recorder.stop(): the stop event is queued when the recorder was recording
StopRecorder(q) ==
    [q EXCEPT !.recorder = "inactive",
              !.stopEvents = IF q.recorder = "recording" THEN @ + 1 ELSE @]

\* render() of recordVideoPlayback
Render(q) ==
    LET duration == RSub(q.end, q.start)
        totalDuration == RMul(duration, <<loopCount, 1>>)
    IN  IF RLe(totalDuration, q.elapsed)
        THEN [StopRecorder(q) EXCEPT !.playing = FALSE, !.rendering = FALSE]
        ELSE LET currentVideoTime == RAdd(q.start, RMod(q.elapsed, duration))
                 seek == RLt(seekTolerance, RAbs(RSub(q.currentTime, currentVideoTime)))
             IN  [q EXCEPT !.currentTime = IF seek THEN currentVideoTime ELSE @,
                           !.seeking = seek \/ @,
                           !.canvas.at = q.shown,
                           !.rendering = TRUE]

\* createLoop(videoFile, startTime, endTime)
PlayCreateLoop(v, startTime, endTime) ==
    /\ mode = "playback"
    /\ playback.st = "idle"
    /\ playback' = [playback EXCEPT !.st = "loading", !.v = v,
                                    !.start = startTime, !.end = endTime]

\* video.onerror
PlayLoadError ==
    /\ playback.st = "loading"
    /\ ~playback.v.ok
    /\ playback' = [playback EXCEPT !.st = "closed",
                                    !.outcome = Settle(@, "load error")]

\* video.onloadedmetadata: recordVideoPlayback up to its wait for the seek
\* to startTime
PlayLoaded ==
    LET q == [playback EXCEPT !.canvas = [w |-> playback.v.w, h |-> playback.v.h,
                                          at |-> <<-1, 1>>]]
    IN  /\ playback.st = "loading"
        /\ playback.v.ok
        /\ playback' =
              IF ~ValidBounds(q.v, q.start, q.end)
              THEN [q EXCEPT !.st = "closed", !.outcome = Settle(@, "invalid bounds")]
              ELSE [q EXCEPT !.st = "started",
                             !.created = TRUE,
                             !.currentTime = q.start,
                             !.seeking = TRUE,
                             !.timer = "armed"]

\* video.onseeked: recorder.start() throws when the recorder is recording,
\* else a recording starts and video.play() is called
PlaySeeked ==
    LET q == [playback EXCEPT !.seeking = FALSE, !.shown = playback.currentTime]
    IN  /\ playback.seeking
        /\ playback' = IF q.recorder = "recording"
                       THEN q
                       ELSE [q EXCEPT !.recorder = "recording",
                                      !.elapsed = Zero,
                                      !.starting = TRUE]

\* video.play() has settled, fulfilled or rejected: render() runs
PlayStarted(ok) ==
    /\ playback.starting
    /\ playback' = Render([playback EXCEPT !.starting = FALSE, !.playing = ok])

\* the animation frame requested by render(): time has passed, the playing
\* video has moved on
PlayRender(dt) ==
    LET q == playback
        moved == IF q.playing /\ ~q.seeking
                 THEN (IF RLt(q.v.dur, RAdd(q.currentTime, dt))
                       THEN q.v.dur ELSE RAdd(q.currentTime, dt))
                 ELSE q.currentTime
    IN  /\ q.rendering
        /\ q.stopEvents = 0
        /\ playback' = Render([q EXCEPT !.elapsed = RAdd(@, dt),
                                        !.currentTime = moved,
                                        !.shown = IF q.seeking THEN @ ELSE moved])

\* recorder.onstop, and createLoop going on after its await
PlayRecorderStop ==
    /\ playback.stopEvents > 0
    /\ playback' = [playback EXCEPT !.stopEvents = @ - 1,
                                    !.rendering = FALSE,
                                    !.st = "closed",
                                    !.outcome = Settle(@, "blob")]

\* the 60 s timer of recordVideoPlayback; "expired" when it runs after the
\* call has settled
PlayTimeout ==
    LET q == [playback EXCEPT !.timer = IF playback.outcome = "pending"
                                        THEN "fired" ELSE "expired"]
    IN  /\ playback.timer = "armed"
        /\ playback' = IF q.recorder = "recording"
                       THEN [StopRecorder(q) EXCEPT !.playing = FALSE,
                                                    !.outcome = Settle(@, "timeout")]
                       ELSE q

NextPlayback ==
    \/ \E v \in PlayVideos, s \in PlayTimes, e \in PlayTimes :
           PlayCreateLoop(v, s, e) /\ UNCHANGED NotPlayback
    \/ PlayLoadError /\ UNCHANGED NotPlayback
    \/ PlayLoaded /\ UNCHANGED NotPlayback
    \/ PlaySeeked /\ UNCHANGED NotPlayback
    \/ \E ok \in BOOLEAN : PlayStarted(ok) /\ UNCHANGED NotPlayback
    \/ \E dt \in FrameSteps : PlayRender(dt) /\ UNCHANGED NotPlayback
    \/ PlayRecorderStop /\ UNCHANGED NotPlayback
    \/ PlayTimeout /\ UNCHANGED NotPlayback

InitPlayback == mode = "playback" /\ Idle /\ Elsewhere

SpecPlayback == InitPlayback /\ [][NextPlayback]_vars

\* one createLoop call on either renderer
InitEither == mode \in {"render", "playback"} /\ Idle /\ Elsewhere

NextEither == NextRender \/ NextPlayback

SpecEither == InitEither /\ [][NextEither]_vars

----------------------------------------------------------------------------
(* VideoAnalyzer (src/client/src/lib/videoAnalyzer.ts): analyzeVideo steps   *)
(* through the video at 5 frames a second and sends each frame to the pose   *)
(* detector.  A pose is [timestamp, x, visibility]: the twelve key joints    *)
(* of a frame are all at (x, 0) with one visibility.  canplaythrough is      *)
(* taken to fire once.                                                       *)

poseFrameRate == 5
poseMaxFrames == 300
poseCanvasWidth == 640
poseCanvasHeight == 480
minPoses == 10
maxPoseWindow == 15
poseSimilarityThreshold == <<3, 10>>
poseMotionThreshold == <<3, 100>>

\* Math.max(0, 1 - distance * 2) for the joints of two poses
JointSimilarity(pose1, pose2) ==
    LET d == RSub(<<1, 1>>, RMul(<<2, 1>>, RAbs(RSub(pose1.x, pose2.x))))
    IN  IF RLt(d, Zero) THEN Zero ELSE d

\* totalSimilarity over the first k frames of the two windows at i and j
RECURSIVE TotalSimilarity(_, _, _, _)
TotalSimilarity(ps, i, j, k) ==
    IF k = 0 THEN Zero
    ELSE RAdd(TotalSimilarity(ps, i, j, k - 1), JointSimilarity(ps[i + k], ps[j + k]))

calculateSequenceSimilarity(ps, i, j, windowSize) ==
    IF windowSize = 0 THEN Zero
    ELSE LET total == TotalSimilarity(ps, i, j, windowSize)
         IN  Rat(total[1], total[2] * windowSize)

\* the inner loop over j = i + windowSize, i + windowSize + 3, ...: the first
\* j whose window is similar, or -1
FirstSimilar(ps, i, windowSize) ==
    LET js == {j \in (i + windowSize)..(Len(ps) - windowSize - 1) :
                  /\ (j - i - windowSize) % 3 = 0
                  /\ RLt(poseSimilarityThreshold,
                         calculateSequenceSimilarity(ps, i, j, windowSize))}
    IN  IF js = {} THEN -1 ELSE CHOOSE j \in js : \A k \in js : j <= k

\* the outer loop of detectRepetitions from index i on
RECURSIVE DetectFrom(_, _, _)
DetectFrom(ps, i, windowSize) ==
    IF i >= Len(ps) - windowSize * 2 THEN <<>>
    ELSE LET j == FirstSimilar(ps, i, windowSize)
         IN  IF j < 0 THEN DetectFrom(ps, i + 3, windowSize)
             ELSE <<<<i, j>>>> \o DetectFrom(ps, j - windowSize + 3, windowSize)

detectRepetitions(ps) ==
    IF Len(ps) < minPoses THEN <<>>
    ELSE DetectFrom(ps, 0, Min(maxPoseWindow, Len(ps) \div 4))

\* calculateMotion of the pose analyzer: the mean distance of the key joints
PoseMotion(pose1, pose2) == RAbs(RSub(pose1.x, pose2.x))

\* findKeyFrames of the pose analyzer
PoseKeyFrames(ps) ==
    SelectSeq([k \in 1..(IF Len(ps) > 2 THEN Len(ps) - 2 ELSE 0) |-> k],
              LAMBDA i : LET motionBefore == PoseMotion(ps[i], ps[i + 1])
                             motionAfter == PoseMotion(ps[i + 1], ps[i + 2])
                         IN  /\ RLt(poseMotionThreshold, motionBefore)
                             /\ RLt(motionAfter, RMul(motionBefore, <<3, 5>>)))

\* the longest repetition, the first of them when several are as long
RECURSIVE LongestRep(_, _, _)
LongestRep(reps, k, best) ==
    IF k > Len(reps) THEN best
    ELSE LongestRep(reps, k + 1,
                    IF reps[k][2] - reps[k][1] > best[2] - best[1] THEN reps[k] ELSE best)

\* findBestLoop of the pose analyzer: pose indices
PoseBestLoop(ps, repetitions) ==
    IF Len(repetitions) = 0
    THEN [loopStart |-> FloorMul(<<3, 10>>, Len(ps)), loopEnd |-> FloorMul(<<7, 10>>, Len(ps))]
    ELSE LET bestRep == LongestRep(repetitions, 2, repetitions[1])
         IN  [loopStart |-> bestRep[1], loopEnd |-> bestRep[2]]

RECURSIVE VisibilitySum(_, _)
VisibilitySum(ps, k) ==
    IF k = 0 THEN Zero ELSE RAdd(VisibilitySum(ps, k - 1), ps[k].visibility)

\* calculateConfidence of the pose analyzer: the mean visibility, at most 1
PoseConfidence(ps) ==
    IF Len(ps) = 0 THEN Zero
    ELSE LET total == VisibilitySum(ps, Len(ps))
             mean == Rat(total[1], total[2] * Len(ps))
         IN  IF RLt(<<1, 1>>, mean) THEN <<1, 1>> ELSE mean

analyzePoses(ps) ==
    IF Len(ps) = 0 THEN ZeroResult
    ELSE LET repetitions == detectRepetitions(ps)
             loop == PoseBestLoop(ps, repetitions)
         IN  [duration |-> ps[Len(ps)].timestamp,
              repetitions |-> Len(repetitions),
              keyFrames |-> PoseKeyFrames(ps),
              loopStart |-> <<loop.loopStart, 1>>,
              loopEnd |-> <<loop.loopEnd, 1>>,
              confidence |-> PoseConfidence(ps),
              poses |-> ps]

PoseVideos ==
    {Unreadable, [ok |-> TRUE, dur |-> <<1, 5>>, w |-> 1280, h |-> 720, pat |-> <<>>]}
    \cup {[ok |-> TRUE, dur |-> Rat(k, poseFrameRate), w |-> 32, h |-> 8, pat |-> <<>>] :
             k \in 0..MaxPoseFrames}

\* what pose.send leads to: no landmarks, a failure, or the landmarks found
Landmarks ==
    {[kind |-> "landmarks", x |-> x, visibility |-> vis] :
        x \in {Zero, <<1, 10>>}, vis \in {<<1, 2>>, <<1, 1>>}}
SendResults ==
    {[kind |-> k, x |-> Zero, visibility |-> Zero] : k \in {"none", "error"}} \cup Landmarks

\* cleanup(): the timer is cleared, the video and the canvas are let go
PoseCleanup(q) == [q EXCEPT !.timeout = IF @ = "armed" THEN "cleared" ELSE @]

\* one call of processFrame, up to its first wait
ProcessFrame(q) ==
    IF RLe(q.v.dur, q.currentTime) \/ q.processedFrames >= q.maxFrames
    THEN LET analysis == analyzePoses(q.poses)
         IN  [PoseCleanup(q) EXCEPT !.st = "closed",
                                    !.built = Append(@, analysis),
                                    !.outcome = Settle(@, "result"),
                                    !.delivered = IF Settle(q.outcome, "result") = "result"
                                                  THEN <<analysis>> ELSE @]
    ELSE IF RLt(<<1, 10>>, RAbs(RSub(q.videoTime, q.currentTime)))
    THEN [q EXCEPT !.videoTime = q.currentTime,
                   !.seeks = Append(@, q.currentTime),
                   !.st = "seeking"]
    ELSE [q EXCEPT !.st = "sending", !.drawn = @ + 1]

\* analyzeVideo(videoFile): initialize() succeeds or fails
PoseAnalyzeVideo(v, initialized) ==
    /\ mode = "pose"
    /\ pose.st = "idle"
    /\ pose' = IF initialized
               THEN [pose EXCEPT !.st = "loading", !.v = v, !.poses = <<>>,
                                 !.timeout = "armed"]
               ELSE [pose EXCEPT !.st = "closed", !.v = v, !.poses = <<>>,
                                 !.outcome = Settle(@, "initialization failed")]

\* video.onerror
PoseLoadError ==
    /\ pose.st = "loading"
    /\ ~pose.v.ok
    /\ pose' = [PoseCleanup(pose) EXCEPT !.st = "closed",
                                         !.outcome = Settle(@, "load error")]

\* video.onloadedmetadata
PoseLoadedMetadata ==
    /\ pose.st = "loading"
    /\ pose.v.ok
    /\ pose' = [pose EXCEPT !.st = "loaded",
                            !.canvas = <<Min(pose.v.w, poseCanvasWidth),
                                         Min(pose.v.h, poseCanvasHeight)>>]

\* video.oncanplaythrough: processVideo, and processFrame for the first time
PoseCanPlayThrough ==
    /\ pose.st = "loaded"
    /\ pose' = ProcessFrame([pose EXCEPT
                   !.currentTime = Zero,
                   !.processedFrames = 0,
                   !.maxFrames = Min(CeilMul(pose.v.dur, poseFrameRate), poseMaxFrames)])

\* the seek has completed, or its 500 ms timer has run: the frame is drawn and sent
PoseSeekDone ==
    /\ pose.st = "seeking"
    /\ pose' = [pose EXCEPT !.st = "sending", !.drawn = @ + 1]

\* pose.send has settled (onResults has run before it when landmarks were found)
PoseSent(res) ==
    /\ pose.st = "sending"
    /\ pose' = IF res.kind = "error"
               THEN [PoseCleanup(pose) EXCEPT !.st = "closed",
                                              !.outcome = Settle(@, "frame error")]
               ELSE [pose EXCEPT
                        !.poses = IF res.kind = "none" THEN @
                                  ELSE Append(@, [timestamp |-> pose.videoTime, x |-> res.x,
                                                  visibility |-> res.visibility]),
                        !.processedFrames = @ + 1,
                        !.currentTime = RAdd(@, Rat(1, poseFrameRate)),
                        !.st = "scheduled"]

\* the 100 ms timer that runs processFrame again
PoseNextFrame ==
    /\ pose.st = "scheduled"
    /\ pose' = ProcessFrame(pose)

\* the two-minute timer of analyzeVideo
PoseTimeout ==
    /\ pose.timeout = "armed"
    /\ pose' = [pose EXCEPT !.timeout = "fired", !.outcome = Settle(@, "timeout")]

NextPose ==
    \/ \E v \in PoseVideos, initialized \in BOOLEAN :
           PoseAnalyzeVideo(v, initialized) /\ UNCHANGED NotPose
    \/ PoseLoadError /\ UNCHANGED NotPose
    \/ PoseLoadedMetadata /\ UNCHANGED NotPose
    \/ PoseCanPlayThrough /\ UNCHANGED NotPose
    \/ PoseSeekDone /\ UNCHANGED NotPose
    \/ \E res \in SendResults : PoseSent(res) /\ UNCHANGED NotPose
    \/ PoseNextFrame /\ UNCHANGED NotPose
    \/ PoseTimeout /\ UNCHANGED NotPose

InitPose == mode = "pose" /\ Idle /\ Elsewhere

SpecPose == InitPose /\ [][NextPose]_vars

----------------------------------------------------------------------------
(* SimpleVideoAnalyzer (src/client/src/lib/simpleVideoAnalyzer.ts) and the   *)
(* use the VideoAnalyzer component makes of its result.  NaN and Infinity    *)
(* are the two numbers with denominator 0.                                   *)

simpleFrameRate == 3
simpleMaxFrames == 60
simpleCanvasWidth == 320
simpleCanvasHeight == 240
simpleMinWindow == 3
assumedFps == 10
simpleSimilarityThreshold == <<7, 10>>
simpleMinThreshold == <<1, 10>>

NaN == <<0, 0>>
Infinity == <<1, 0>>

\* a < b on numbers: false when either is NaN
NumLt(a, b) ==
    IF a = NaN \/ b = NaN \/ a = Infinity THEN FALSE
    ELSE IF b = Infinity THEN TRUE
    ELSE RLt(a, b)

\* compareFrames: every 16th pixel, |dR| + |dG| + |dB|, averaged, over 765
compareFrames(frame1, frame2) ==
    LET pixels == (frame1.w * frame1.h * 4 + 63) \div 64
    IN  IF pixels > 0
        THEN Rat(TotalDiff(frame1, frame2, 0, pixels), pixels * 765)
        ELSE Zero

calculateMotionScores(fd) ==
    [k \in 1..Len(fd) |-> IF k = 1 THEN Zero ELSE compareFrames(fd[k - 1], fd[k])]

\* values.slice(a, b), indices from 0
Slice(values, a, b) == [k \in 1..(IF b > a THEN b - a ELSE 0) |-> values[a + k]]

RECURSIVE SumOf(_, _)
SumOf(values, k) == IF k = 0 THEN Zero ELSE RAdd(SumOf(values, k - 1), values[k])

RECURSIVE MaxOf(_, _)
MaxOf(values, k) ==
    IF k = 1 THEN values[1]
    ELSE LET m == MaxOf(values, k - 1) IN IF RLt(m, values[k]) THEN values[k] ELSE m

\* calculateVariance: 0 / 0 for an empty list
calculateVariance(values) ==
    IF Len(values) = 0 THEN NaN
    ELSE LET total == SumOf(values, Len(values))
             mean == Rat(total[1], total[2] * Len(values))
             squares == [k \in 1..Len(values) |->
                            RMul(RSub(values[k], mean), RSub(values[k], mean))]
             sum == SumOf(squares, Len(values))
         IN  Rat(sum[1], sum[2] * Len(values))

\* the loop of findBestLoopSection from start on
RECURSIVE BestSection(_, _, _, _)
BestSection(scores, sectionSize, start, best) ==
    IF start >= Len(scores) - sectionSize THEN best
    ELSE LET end == Min(start + sectionSize, Len(scores) - 1)
             variance == calculateVariance(Slice(scores, start, end))
         IN  BestSection(scores, sectionSize, start + 1,
                         IF NumLt(variance, best.variance)
                         THEN [start |-> start, end |-> end, variance |-> variance]
                         ELSE best)

\* findBestLoopSection: indices into motionScores
findBestLoopSection(scores) ==
    LET sectionSize == Len(scores) \div 3
        best == BestSection(scores, sectionSize, 0,
                            [start |-> 0, end |-> Min(sectionSize, Len(scores) - 1),
                             variance |-> Infinity])
    IN  [loopStart |-> best.start, loopEnd |-> best.end]

calculatePatternSimilarity(pattern1, pattern2) ==
    IF Len(pattern1) # Len(pattern2) THEN Zero
    ELSE LET maxDiff == RAdd(MaxOf(pattern1, Len(pattern1)), MaxOf(pattern2, Len(pattern2)))
         IN  IF maxDiff = Zero THEN <<1, 1>>
             ELSE LET terms == [k \in 1..Len(pattern1) |->
                                   LET diff == RAbs(RSub(pattern1[k], pattern2[k]))
                                   IN  RSub(<<1, 1>>, Rat(diff[1] * maxDiff[2],
                                                          diff[2] * maxDiff[1]))]
                      sum == SumOf(terms, Len(terms))
                  IN  Rat(sum[1], sum[2] * Len(pattern1))

\* the inner loop of findRepetitiveMotion: the first similar j, or -1
FirstRepeat(scores, i, windowSize) ==
    LET js == {j \in (i + windowSize)..(Len(scores) - windowSize - 1) :
                  RLt(simpleSimilarityThreshold,
                      calculatePatternSimilarity(Slice(scores, i, i + windowSize),
                                                 Slice(scores, j, j + windowSize)))}
    IN  IF js = {} THEN -1 ELSE CHOOSE j \in js : \A k \in js : j <= k

\* the outer loop of findRepetitiveMotion from i on
RECURSIVE RepetitiveFrom(_, _, _)
RepetitiveFrom(scores, i, windowSize) ==
    IF i >= Len(scores) - windowSize * 2 THEN <<>>
    ELSE LET j == FirstRepeat(scores, i, windowSize)
         IN  IF j < 0 THEN RepetitiveFrom(scores, i + 1, windowSize)
             ELSE <<<<i, j>>>> \o RepetitiveFrom(scores, j, windowSize)

findRepetitiveMotion(scores) ==
    RepetitiveFrom(scores, 0,
                   IF Len(scores) \div 6 > simpleMinWindow
                   THEN Len(scores) \div 6 ELSE simpleMinWindow)

\* sorted[k], k from 0
SortedAt(scores, k) ==
    LET at == CHOOSE i \in 1..Len(scores) :
                /\ Cardinality({j \in 1..Len(scores) : RLt(scores[j], scores[i])}) <= k
                /\ k < Cardinality({j \in 1..Len(scores) : RLe(scores[j], scores[i])})
    IN  scores[at]

calculateMotionThreshold(scores) ==
    LET percentile75 == SortedAt(scores, (3 * Len(scores)) \div 4)
    IN  IF RLt(percentile75, simpleMinThreshold) THEN simpleMinThreshold ELSE percentile75

findKeyMotionFrames(scores) ==
    LET threshold == calculateMotionThreshold(scores)
    IN  SelectSeq([k \in 1..(IF Len(scores) > 2 THEN Len(scores) - 2 ELSE 0) |-> k],
                  LAMBDA i : /\ RLt(threshold, scores[i + 1])
                             /\ RLt(scores[i], scores[i + 1])
                             /\ RLt(scores[i + 2], scores[i + 1]))

\* analyzeFrames of the simple analyzer
SimpleAnalyzeFrames(fd, duration) ==
    IF Len(fd) = 0
    THEN [duration |-> Zero, repetitions |-> 0, keyFrames |-> <<>>,
          loopStart |-> Zero, loopEnd |-> Zero, confidence |-> Zero]
    ELSE LET motionScores == calculateMotionScores(fd)
             repetitions == findRepetitiveMotion(motionScores)
             loop == findBestLoopSection(motionScores)
         IN  [duration |-> duration,
              repetitions |-> Len(repetitions),
              keyFrames |-> findKeyMotionFrames(motionScores),
              loopStart |-> <<loop.loopStart, 1>>,
              loopEnd |-> <<loop.loopEnd, 1>>,
              confidence |-> IF Len(repetitions) > 0 THEN <<3, 5>> ELSE <<3, 10>>]

\* the options handleProcessVideo makes of an analysis
handleProcessVideo(analysisData) ==
    [startTime |-> Rat(analysisData.loopStart[1], analysisData.loopStart[2] * assumedFps),
     endTime |-> Rat(analysisData.loopEnd[1], analysisData.loopEnd[2] * assumedFps)]

\* handleAnalyze once it has the result: the video is processed when
\* repetitions were found with confidence above 0.4
Processed(result) ==
    IF result.repetitions > 0 /\ RLt(<<2, 5>>, result.confidence)
    THEN <<handleProcessVideo(result)>> ELSE <<>>

SimplePatterns == {<<Still>>, <<Still, Bright, Rise1>>, <<Rise1, Rise2, Bright, Alt1, Alt2>>}

SimpleVideos ==
    {Unreadable, Video(Zero, <<Still>>), Video(<<1, 4>>, <<Still, Bright, Rise1>>)}
    \cup {Video(Rat(k, simpleFrameRate), pat) :
             k \in 1..MaxSimpleFrames, pat \in SimplePatterns}

\* one call of processFrame of processVideoSimple, up to its wait for the seek
SimpleProcessFrame(q) ==
    IF RLe(q.v.dur, q.currentTime) \/ Len(q.frameData) >= q.maxFrames
    THEN LET analysis == SimpleAnalyzeFrames(q.frameData, q.v.dur)
         IN  [q EXCEPT !.st = "closed",
                       !.outcome = Settle(@, "result"),
                       !.delivered = <<analysis>>,
                       !.options = Processed(analysis)]
    ELSE [q EXCEPT !.st = "seeking"]

\* analyzeVideo(videoFile) of the simple analyzer
SimpleAnalyzeVideo(v) ==
    /\ mode = "simple"
    /\ simple.st = "idle"
    /\ simple' = [simple EXCEPT !.st = "loading", !.v = v]

\* video.onerror
SimpleLoadError ==
    /\ simple.st = "loading"
    /\ ~simple.v.ok
    /\ simple' = [simple EXCEPT !.st = "closed", !.outcome = Settle(@, "load error")]

\* video.onloadedmetadata, then video.oncanplaythrough: processVideoSimple
SimpleLoaded ==
    /\ simple.st = "loading"
    /\ simple.v.ok
    /\ simple' = SimpleProcessFrame([simple EXCEPT
                     !.canvas = <<Min(simple.v.w, simpleCanvasWidth),
                                  Min(simple.v.h, simpleCanvasHeight)>>,
                     !.currentTime = Zero,
                     !.maxFrames = Min(CeilMul(simple.v.dur, simpleFrameRate),
                                       simpleMaxFrames)])

\* the seek has completed (TRUE) or its 200 ms timer has run first (FALSE):
\* the frame is drawn and kept
SimpleCapture(ok) ==
    LET picture == Drawn(ok, simple.shown, PictureAt(simple.v, simple.currentTime))
    IN  /\ simple.st = "seeking"
        /\ simple' = [simple EXCEPT !.st = "scheduled",
                                    !.shown = picture,
                                    !.frameData = Append(@, picture),
                                    !.currentTime = RAdd(@, Rat(1, simpleFrameRate))]

\* the 100 ms timer that runs processFrame again
SimpleNextFrame ==
    /\ simple.st = "scheduled"
    /\ simple' = SimpleProcessFrame(simple)

NextSimple ==
    \/ \E v \in SimpleVideos : SimpleAnalyzeVideo(v) /\ UNCHANGED NotSimple
    \/ SimpleLoadError /\ UNCHANGED NotSimple
    \/ SimpleLoaded /\ UNCHANGED NotSimple
    \/ \E ok \in BOOLEAN : SimpleCapture(ok) /\ UNCHANGED NotSimple
    \/ SimpleNextFrame /\ UNCHANGED NotSimple

InitSimple == mode = "simple" /\ Idle /\ Elsewhere

SpecSimple == InitSimple /\ [][NextSimple]_vars

----------------------------------------------------------------------------
(* One VideoAnalyzer instance over several analyzeVideo calls               *)
(* (src/client/src/lib/videoAnalyzer.ts).  this.poses and this.video belong *)
(* to the instance; the video element, the canvas, the timer and the        *)
(* counters of processVideo belong to a call, and to each run of            *)
(* processVideo within it (a pass).  A call is made when the one before it  *)
(* has settled.  'canplaythrough' is delivered when the video is ready to   *)
(* play through, again after a seek has interrupted that.  A pose entry     *)
(* tells the call and time of the frame it was found in and the call whose  *)
(* video gave its timestamp.  initialize() succeeds.                        *)

InstanceVideos ==
    {Unreadable}
    \cup {[ok |-> TRUE, dur |-> Rat(k, poseFrameRate), w |-> 32, h |-> 8, pat |-> <<>>] :
             k \in 1..MaxInstanceFrames}

\* ctx.drawImage(video, ...): the frame the call's video is at
DrawFrame(s, c, k) ==
    [s EXCEPT !.calls[c].passes[k].st = "sending",
              !.calls[c].passes[k].frame = s.calls[c].videoTime,
              !.calls[c].frames = Append(@, s.calls[c].videoTime)]

\* one call of processFrame of pass k of call c, up to its first wait
InstanceProcessFrame(s, c, k) ==
    LET q == s.calls[c]
        ps == q.passes[k]
    IN  IF RLe(q.v.dur, ps.currentTime) \/ ps.processedFrames >= q.maxFrames
        THEN [s EXCEPT !.calls[c] =
                 [PoseCleanup(q) EXCEPT !.passes[k].st = "done",
                                        !.outcome = Settle(@, "result"),
                                        !.delivered = IF q.outcome = "pending"
                                                      THEN <<s.current>> ELSE @]]
        ELSE IF RLt(<<1, 10>>, RAbs(RSub(q.videoTime, ps.currentTime)))
        THEN [s EXCEPT !.calls[c].videoTime = ps.currentTime,
                       !.calls[c].ready = FALSE,
                       !.calls[c].passes[k].st = "seeking"]
        ELSE DrawFrame(s, c, k)

\* several calls are followed with one delivery of 'canplaythrough' each,
\* several deliveries within one call
CallsMade(m) == IF m = "instance" THEN MaxPoseCalls ELSE 1
PassesStarted(m) == IF m = "passes" THEN MaxPasses ELSE 1

\* analyzeVideo(videoFile)
InstanceAnalyzeVideo(c, v) ==
    /\ mode \in {"instance", "passes"}
    /\ c <= CallsMade(mode)
    /\ instance.calls[c].st = "idle"
    /\ IF c = 1 THEN TRUE ELSE instance.calls[c - 1].outcome # "pending"
    /\ instance' = [instance EXCEPT !.arrays[c] = <<>>,
                                    !.current = c,
                                    !.calls[c].st = "loading",
                                    !.calls[c].v = v,
                                    !.calls[c].timeout = "armed"]

\* video.onerror
InstanceLoadError(c) ==
    LET q == instance.calls[c]
    IN  /\ q.st = "loading"
        /\ ~q.v.ok
        /\ instance' = [instance EXCEPT !.calls[c] =
                           [PoseCleanup(q) EXCEPT !.st = "closed",
                                                  !.outcome = Settle(@, "load error")]]

\* video.onloadedmetadata
InstanceLoadedMetadata(c) ==
    LET q == instance.calls[c]
    IN  /\ q.st = "loading"
        /\ q.v.ok
        /\ instance' = [instance EXCEPT !.calls[c].st = "loaded"]

\* video.oncanplaythrough: processVideo, and its processFrame for the first time
InstanceCanPlayThrough(c) ==
    LET q == instance.calls[c]
        k == Len(q.passes) + 1
        started == [instance EXCEPT
                       !.calls[c].ready = TRUE,
                       !.calls[c].maxFrames = Min(CeilMul(q.v.dur, poseFrameRate), poseMaxFrames),
                       !.calls[c].passes = Append(@, [st |-> "started", currentTime |-> Zero,
                                                      processedFrames |-> 0, frame |-> Zero])]
    IN  /\ q.st = "loaded"
        /\ ~q.ready
        /\ Len(q.passes) < PassesStarted(mode)
        /\ instance' = InstanceProcessFrame(started, c, k)

\* the seek of a pass has completed, or its 500 ms timer has run
InstanceSeekDone(c, k) ==
    /\ k \in 1..Len(instance.calls[c].passes)
    /\ instance.calls[c].passes[k].st = "seeking"
    /\ instance' = DrawFrame(instance, c, k)

\* pose.send of a pass has settled; onResults has run before it when
\* landmarks were found, and has pushed onto this.poses with the time of
\* this.video
InstanceSent(c, k, res) ==
    LET q == instance.calls[c]
        poseData == [timestamp |-> instance.calls[instance.current].videoTime,
                     clock |-> instance.current,
                     call |-> c,
                     frame |-> q.passes[k].frame]
    IN  /\ k \in 1..Len(q.passes)
        /\ q.passes[k].st = "sending"
        /\ instance' =
              IF res = "error"
              THEN [instance EXCEPT !.calls[c] =
                       [PoseCleanup(q) EXCEPT !.passes[k].st = "failed",
                                              !.outcome = Settle(@, "frame error")]]
              ELSE [instance EXCEPT
                       !.arrays[instance.current] = IF res = "none" THEN @ ELSE Append(@, poseData),
                       !.calls[c].passes[k].processedFrames = @ + 1,
                       !.calls[c].passes[k].currentTime = RAdd(@, Rat(1, poseFrameRate)),
                       !.calls[c].passes[k].st = "scheduled"]

\* the 100 ms timer that runs processFrame of a pass again
InstanceNextFrame(c, k) ==
    /\ k \in 1..Len(instance.calls[c].passes)
    /\ instance.calls[c].passes[k].st = "scheduled"
    /\ instance' = InstanceProcessFrame(instance, c, k)

\* the two-minute timer of a call
InstanceTimeout(c) ==
    LET q == instance.calls[c]
    IN  /\ q.timeout = "armed"
        /\ instance' = [instance EXCEPT !.calls[c].timeout = "fired",
                                        !.calls[c].outcome = Settle(@, "timeout")]

NextInstance ==
    \/ \E c \in PoseCalls, v \in InstanceVideos : InstanceAnalyzeVideo(c, v) /\ UNCHANGED NotInstance
    \/ \E c \in PoseCalls : InstanceLoadError(c) /\ UNCHANGED NotInstance
    \/ \E c \in PoseCalls : InstanceLoadedMetadata(c) /\ UNCHANGED NotInstance
    \/ \E c \in PoseCalls : InstanceCanPlayThrough(c) /\ UNCHANGED NotInstance
    \/ \E c \in PoseCalls, k \in 1..MaxPasses : InstanceSeekDone(c, k) /\ UNCHANGED NotInstance
    \/ \E c \in PoseCalls, k \in 1..MaxPasses, res \in {"none", "landmarks", "error"} :
           InstanceSent(c, k, res) /\ UNCHANGED NotInstance
    \/ \E c \in PoseCalls, k \in 1..MaxPasses : InstanceNextFrame(c, k) /\ UNCHANGED NotInstance
    \/ \E c \in PoseCalls : InstanceTimeout(c) /\ UNCHANGED NotInstance

InitInstance == mode = "instance" /\ Idle /\ Elsewhere

SpecInstance == InitInstance /\ [][NextInstance]_vars

InitPasses == mode = "passes" /\ Idle /\ Elsewhere

SpecPasses == InitPasses /\ [][NextInstance]_vars

----------------------------------------------------------------------------
(* Upload page (src/unnamed/part_008).  A video file is a number from 1 to   *)
(* MaxVideoFiles, 0 standing for null; its name is the same number.  An      *)
(* analysis result carries the file it was computed from and, for the        *)
(* numbers the page tests with "||", whether they are 0.  A field of a drill *)
(* record tells where its value came from: an analysis result (and of which  *)
(* file), Math.random, or the user.  The analyzer component, mounted while   *)
(* the step is 'analyze', reports on the file it was given.                  *)

VideoFiles == 1..MaxVideoFiles

\* the results the analyzer component may report for file f
AnalysesOf(f) ==
    {[of |-> f, duration |-> d, repetitions |-> r, confidence |-> 1] : d \in {0, 1}, r \in {0, 1}}

FromAnalysis(a) == [src |-> "analysis", of |-> a.of]
Random == [src |-> "random", of |-> 0]

\* handleVideoSelect(file)
HandleVideoSelect(f) ==
    /\ mode = "upload"
    /\ upload.step = "upload"
    /\ upload' = [upload EXCEPT !.videoFile = f,
                                !.formData.name = f,
                                !.step = "analyze",
                                !.reached = "none"]

\* handleAnalysisComplete(analysis, processed, thumbnail)
HandleAnalysisComplete(analysis, processed, thumbnail) ==
    /\ upload.step = "analyze"
    /\ upload.videoFile # 0
    /\ analysis.of = upload.videoFile
    /\ upload' = [upload EXCEPT
                      !.analysisData = analysis,
                      !.processedVideo = IF processed THEN analysis.of ELSE @,
                      !.thumbnailBlob = IF thumbnail THEN analysis.of ELSE @,
                      !.formData.notes = [kind |-> "analysis", of |-> analysis.of],
                      !.step = "form",
                      !.reached = "complete"]

\* handleAnalysisError(error)
HandleAnalysisError ==
    /\ upload.step = "analyze"
    /\ upload.videoFile # 0
    /\ upload' = [upload EXCEPT !.step = "form", !.reached = "failure"]

\* the back button while a step other than the first is shown
BackToUpload ==
    /\ upload.step \in {"analyze", "form"}
    /\ upload' = [upload EXCEPT !.step = "upload"]

\* the button "Back to Analysis" of the form, disabled while the mutation is
\* pending
BackToAnalysis ==
    /\ upload.step = "form"
    /\ upload.mutation = <<>>
    /\ upload' = [upload EXCEPT !.step = "analyze"]

\* the category select and the notes field of the form
EditForm(category, notes) ==
    /\ upload.step = "form"
    /\ upload' = [upload EXCEPT !.formData.category = category,
                                !.formData.notes = IF notes THEN [kind |-> "typed", of |-> 0]
                                                   ELSE @]

\* drillData of handleProcessVideo
DrillData(u) ==
    [video |-> u.videoFile,
     reached |-> u.reached,
     name |-> u.formData.name,
     duration |-> IF u.analysisData.of # 0 /\ u.analysisData.duration # 0
                  THEN FromAnalysis(u.analysisData) ELSE Random,
     repetitions |-> IF u.analysisData.of # 0 /\ u.analysisData.repetitions # 0
                     THEN FromAnalysis(u.analysisData) ELSE Random,
     accuracy |-> IF u.analysisData.of # 0 THEN FromAnalysis(u.analysisData) ELSE Random,
     notes |-> u.formData.notes]

\* handleUploadComplete -> handleProcessVideo: without a name or a category
\* nothing is built; else the drill record goes out with the mutation
HandleProcessVideo ==
    /\ upload.step = "form"
    /\ upload.mutation = <<>>
    /\ upload' = IF upload.formData.name = 0 \/ ~upload.formData.category
                 THEN upload
                 ELSE [upload EXCEPT !.mutation = <<DrillData(upload)>>]

\* createDrillMutation settles: onSuccess leaves the page, onError stays
MutationSettled(created) ==
    /\ upload.step # "left"
    /\ upload.mutation # <<>>
    /\ upload' = IF created
                 THEN [upload EXCEPT !.step = "left"]
                 ELSE [upload EXCEPT !.mutation = <<>>]

NextUpload ==
    \/ \E f \in VideoFiles : HandleVideoSelect(f) /\ UNCHANGED NotUpload
    \/ \E a \in UNION {AnalysesOf(f) : f \in VideoFiles}, processed \in BOOLEAN, thumbnail \in BOOLEAN :
           HandleAnalysisComplete(a, processed, thumbnail) /\ UNCHANGED NotUpload
    \/ HandleAnalysisError /\ UNCHANGED NotUpload
    \/ BackToUpload /\ UNCHANGED NotUpload
    \/ BackToAnalysis /\ UNCHANGED NotUpload
    \/ \E category \in BOOLEAN, notes \in BOOLEAN : EditForm(category, notes) /\ UNCHANGED NotUpload
    \/ HandleProcessVideo /\ UNCHANGED NotUpload
    \/ \E created \in BOOLEAN : MutationSettled(created) /\ UNCHANGED NotUpload

InitUpload == mode = "upload" /\ Idle /\ Elsewhere

SpecUpload == InitUpload /\ [][NextUpload]_vars

----------------------------------------------------------------------------
(* MemStorage *)

\* the two Maps keep their entries in insertion order; an id is the number
\* of the randomUUID call that returned it
Keys(map) == {map[k].id : k \in 1..Len(map)}
Get(map, id) == map[CHOOSE k \in 1..Len(map) : map[k].id = id]

\* Map.set(id, value)
MapSet(map, id, value) ==
    IF id \in Keys(map)
    THEN [k \in 1..Len(map) |-> IF map[k].id = id THEN value ELSE map[k]]
    ELSE Append(map, value)

\* Map.delete(id)
MapDelete(map, id) == SelectSeq(map, LAMBDA e : e.id # id)

\* the drillIds lists a caller passes: up to MaxDrillIds ids of drills that
\* are stored when the call is made
DrillIdLists ==
    UNION {[1..n -> Keys(storage.drills)] : n \in 0..MaxDrillIds}

\* createDrill(insertDrill)
CreateDrill ==
    /\ mode = "storage"
    /\ storage.issued < MaxIds
    /\ LET id == storage.issued + 1
       IN  storage' = [storage EXCEPT !.issued = id,
                                      !.drills = MapSet(@, id, [id |-> id])]

\* deleteDrill(id)
DeleteDrill(id) ==
    /\ mode = "storage"
    /\ storage' = [storage EXCEPT !.drills = MapDelete(@, id)]

\* createWorkout(insertWorkout); given: whether insertWorkout has drillIds
CreateWorkout(given, drillIds) ==
    /\ mode = "storage"
    /\ storage.issued < MaxIds
    /\ LET id == storage.issued + 1
           workout == [id |-> id, drillIds |-> IF given THEN drillIds ELSE <<>>]
       IN  storage' = [storage EXCEPT !.issued = id,
                                      !.workouts = MapSet(@, id, workout)]

\* updateWorkout(id, workoutUpdate); given: whether workoutUpdate has drillIds
UpdateWorkout(id, given, drillIds) ==
    /\ mode = "storage"
    /\ IF id \notin Keys(storage.workouts)
       THEN UNCHANGED storage
       ELSE LET existing == Get(storage.workouts, id)
                updated == [existing EXCEPT !.drillIds = IF given THEN drillIds ELSE @]
            IN  storage' = [storage EXCEPT !.workouts = MapSet(@, id, updated)]

\* deleteWorkout(id)
DeleteWorkout(id) ==
    /\ mode = "storage"
    /\ storage' = [storage EXCEPT !.workouts = MapDelete(@, id)]

\* getWorkoutWithDrills(id); no workout stands for undefined
getWorkoutWithDrills(s, id) ==
    IF id \notin Keys(s.workouts) THEN [found |-> FALSE, drillIds |-> <<>>, drills |-> <<>>]
    ELSE LET workout == Get(s.workouts, id)
             looked == [n \in 1..Len(workout.drillIds) |->
                           IF workout.drillIds[n] \in Keys(s.drills)
                           THEN <<Get(s.drills, workout.drillIds[n])>> ELSE <<>>]
             present == SelectSeq(looked, LAMBDA d : d # <<>>)
         IN  [found |-> TRUE, drillIds |-> workout.drillIds,
              drills |-> [n \in 1..Len(present) |-> present[n][1]]]

NextStorage ==
    \/ CreateDrill /\ UNCHANGED NotStorage
    \/ \E id \in 1..MaxIds : DeleteDrill(id) /\ UNCHANGED NotStorage
    \/ \E given \in BOOLEAN, drillIds \in DrillIdLists :
           CreateWorkout(given, drillIds) /\ UNCHANGED NotStorage
    \/ \E id \in 1..MaxIds, given \in BOOLEAN, drillIds \in DrillIdLists :
           UpdateWorkout(id, given, drillIds) /\ UNCHANGED NotStorage
    \/ \E id \in 1..MaxIds : DeleteWorkout(id) /\ UNCHANGED NotStorage

InitStorage == mode = "storage" /\ Idle /\ Elsewhere

SpecStorage == InitStorage /\ [][NextStorage]_vars

----------------------------------------------------------------------------
(* Properties *)

Calls == 1..Len(log)
Resolved(k) == log[k].kind = "resolved"
\* the latest call has settled with a result and frames is the list it read
JustResolved == pc = "idle" /\ Len(log) > 0 /\ Resolved(Len(log))
Latest == log[Len(log)]

\* C1: every analysis that captured at least one frame returns
\* 0 <= loopStart < loopEnd <= duration; one that captured none returns
\* loopStart = loopEnd = 0.
C1_LoopWithinDuration ==
    \A k \in Calls :
        Resolved(k) =>
            LET r == log[k].result
            IN  IF log[k].captured >= 1
                THEN /\ RLe(Zero, r.loopStart)
                     /\ RLt(r.loopStart, r.loopEnd)
                     /\ RLe(r.loopEnd, r.duration)
                ELSE r.loopStart = Zero /\ r.loopEnd = Zero

\* C2: two calls on the same analyzer given the same video (same duration, same
\* pictures) settle alike and return identical results.
C2_SameVideoSameResult ==
    \A j \in Calls : \A k \in Calls :
        log[j].video = log[k].video =>
            log[j].kind = log[k].kind /\ log[j].result = log[k].result

\* C3: the frame list read by the latest call has at most maxFrames entries and
\* its first frame has motion 0.
C3_FrameListBounded ==
    JustResolved =>
        /\ Len(frames) <= maxFrames
        /\ Len(frames) > 0 => frames[1].motion = Zero

C5_UnreadableIsZero ==
    \A k \in Calls :
        ~log[k].video.ok => Resolved(k) /\ log[k].result = ZeroResult

\* C6: with at least one frame captured, confidence is 0.3, 0.6, 0.75, 0.9 for
\* 0, 1, 2, 3 or more repetitions; confidence 0 only when no frame was captured.
C6_ConfidenceTiers ==
    \A k \in Calls :
        Resolved(k) =>
            LET r == log[k].result
            IN  /\ log[k].captured >= 1 =>
                    /\ r.repetitions = 0 => r.confidence = <<3, 10>>
                    /\ r.repetitions = 1 => r.confidence = <<3, 5>>
                    /\ r.repetitions = 2 => r.confidence = <<3, 4>>
                    /\ r.repetitions >= 3 => r.confidence = <<9, 10>>
                /\ r.confidence = Zero => log[k].captured = 0

C6_Witness ==
    /\ Len(log) = 1 /\ Resolved(1)
    /\ log[1].captured >= 1
    /\ log[1].result.repetitions = 2
    /\ log[1].result.confidence = <<3, 4>>

Near(a, b) == Abs(a[1] - b[1]) < 5 /\ Abs(a[2] - b[2]) < 5

\* C7: the list deduplicateRepetitions returns has no two entries within 5 frames
\* of each other at both ends, holds raw candidates only, and every raw candidate
\* is within that tolerance of a returned one.
C7_Deduplicated ==
    dedupDone =>
        /\ \A j \in 1..Len(dedupOut) : \A k \in 1..Len(dedupOut) :
               j # k => ~Near(dedupOut[j], dedupOut[k])
        /\ \A k \in 1..Len(dedupOut) : \E j \in 1..Len(dedupIn) : dedupOut[k] = dedupIn[j]
        /\ \A j \in 1..Len(dedupIn) : \E k \in 1..Len(dedupOut) : Near(dedupIn[j], dedupOut[k])

C7_Witness ==
    /\ dedupDone
    /\ Len(dedupIn) = 3
    /\ Len(dedupOut) = 2
    /\ dedupOut[2] = dedupIn[3]

\* C8: every candidate (startIndex, otherStartIndex) recorded for window size w
\* has otherStartIndex > startIndex + w.
C8_WindowsApart ==
    JustResolved =>
        LET cs == CycleStarts(frames)
            ws == WindowSizes(Len(frames))
        IN  \A n \in 1..Len(ws) :
                LET raw == RawForWindow(frames, cs, ws[n])
                IN  \A k \in 1..Len(raw) : raw[k][2] > raw[k][1] + ws[n]

\* C9: with at least one candidate, the chosen loop spans at most one third of
\* the frames.
C9_LoopWithinThird ==
    JustResolved =>
        LET reps == findRepetitions(frames)
            loop == findBestLoop(frames, reps)
        IN  Len(reps) > 0 => loop.loopEnd - loop.loopStart <= Len(frames) \div 3

\* C10 as stated: with no candidate and at least one frame captured,
\* loopStart = 0.2 * duration and loopEnd = 0.8 * duration.
C10_MiddleSixtyPercent ==
    \A k \in Calls :
        (Resolved(k) /\ log[k].captured >= 1 /\ log[k].result.repetitions = 0) =>
            /\ log[k].result.loopStart = RMul(<<1, 5>>, log[k].result.duration)
            /\ log[k].result.loopEnd = RMul(<<4, 5>>, log[k].result.duration)

\* C10 amended: with no candidate, loopStart is the capture time of frame
\* floor(n / 5) and loopEnd that of frame floor(4n / 5) of the n >= 1 frames read,
\* or the duration when that time is 0; these are 0.2 and 0.8 of the duration
\* when n is a multiple of 5 and every frame read was captured by this call.
C10_FallbackFrames ==
    (JustResolved /\ Len(frames) >= 1 /\ Latest.result.repetitions = 0) =>
        LET n == Len(frames)
            endTime == frames[(4 * n) \div 5 + 1].time
            r == Latest.result
        IN  /\ r.loopStart = frames[n \div 5 + 1].time
            /\ r.loopEnd = IF endTime = Zero THEN r.duration ELSE endTime
            /\ (n % 5 = 0 /\ Latest.captured = n) =>
                   /\ r.loopStart = RMul(<<1, 5>>, r.duration)
                   /\ r.loopEnd = RMul(<<4, 5>>, r.duration)

C10_Witness ==
    /\ JustResolved
    /\ Latest.result.repetitions = 0
    /\ Len(frames) = 10 /\ Latest.captured = 10
    /\ Latest.result.loopStart = <<1, 5>>
    /\ Latest.result.loopEnd = <<4, 5>>

\* the frames pushed by the current call: frames[PassBase + 1 .. Len(frames)]
PassBase == Len(frames) - captured

\* C11: whichever seeks deliver 'seeked' and whichever hit the 100 ms timer, a
\* call on a readable video ends, resolves with a result, has captured as many
\* frames as when no seek times out, and every frame whose seek timed out holds
\* the pixel data of the frame captured before it.
C11_SeekTimeoutsAbsorbed ==
    /\ [](pc = "idle" /\ Len(log) > 0 /\ Latest.video.ok =>
            /\ Resolved(Len(log))
            /\ captured = TotalFrames(video.dur)
            /\ Len(seeked) = captured
            /\ \A i \in 2..captured :
                   ~seeked[i] =>
                       frames[PassBase + i].pixels = frames[PassBase + i - 1].pixels)
    /\ ((pc # "idle" /\ video.ok) ~> (pc = "idle"))

C11_Witness ==
    /\ JustResolved
    /\ captured = SeekFrames
    /\ seeked[1] /\ ~seeked[2] /\ seeked[3] /\ ~seeked[captured]
    /\ frames[2].pixels = frames[1].pixels
    /\ frames[2].pixels # PictureAt(video, frames[2].time)

\* C12: the frames of one pass are captured at the times 0, d/N, 2d/N, ... with
\* N = min(ceil(d * rate), maxFrames), each time greater than the one before
\* and less than d, and the motion of frame i > 0 is computed against frame
\* i - 1 of the same pass.
C12_EvenlySpacedSamePass ==
    JustResolved =>
        LET N == TotalFrames(video.dur)
        IN  /\ captured = N
            /\ \A i \in 0..(captured - 1) :
                   LET f == frames[PassBase + i + 1]
                   IN  /\ f.time = Rat(i * video.dur[1], video.dur[2] * N)
                       /\ RLt(f.time, video.dur)
                       /\ i > 0 =>
                              LET prev == frames[PassBase + i]
                              IN  /\ RLt(prev.time, f.time)
                                  /\ f.motion = calculateMotion(prev.pixels, f.pixels)

\* the createLoop calls whose bounds extractAndLoop accepts
Accepted(p) ==
    /\ pass[p].kind = "loop"
    /\ pass[p].v.ok
    /\ ValidBounds(pass[p].v, pass[p].start, pass[p].end)

\* C13: for every accepted loop (0 <= startTime < endTime <= duration) every
\* time the renderer seeks to lies in [startTime, endTime) and in [0, duration].
C13_SeeksInsideLoop ==
    \A p \in Passes :
        Accepted(p) =>
            \A k \in 1..Len(pass[p].seeks) :
                LET t == pass[p].seeks[k]
                IN  /\ RLe(pass[p].start, t) /\ RLt(t, pass[p].end)
                    /\ RLe(Zero, t) /\ RLe(t, pass[p].v.dur)

C13_Witness ==
    /\ Accepted(1)
    /\ pass[1].end = pass[1].v.dur
    /\ pass[1].outcome = "blob"
    /\ Len(pass[1].seeks) = MaxLoopFrames
    /\ pass[1].seeks[MaxLoopFrames] # pass[1].start

\* C17: a render that finishes without the overall timeout has handed the
\* encoder exactly 3 * N frames, N = ceil((endTime - startTime) * fps): three
\* passes over the loop positions 0, 1, ..., N - 1 in that order.
C17_ThreePassesInOrder ==
    \A p \in Passes :
        (Accepted(p) /\ pass[p].outcome = "blob" /\ pass[p].overallTimeout = "cleared") =>
            LET N == LoopFrames(pass[p].start, pass[p].end)
            IN  /\ Len(pass[p].handed) = loopPlays * N
                /\ \A k \in 1..Len(pass[p].handed) :
                       pass[p].handed[k].pos = (k - 1) % N

\* C14: when the overall timeout of a render fires before the render has
\* finished, the call fails with the timeout error and delivers no blob,
\* whatever recorder events arrive afterwards.
C14_TimeoutFailsRender ==
    /\ \A p \in Passes : pass[p].overallTimeout = "fired" => pass[p].outcome = "timeout"
    /\ playback.timer = "fired" => playback.outcome = "timeout"

\* what a pass of the pose analyzer has done: its seeks, the frames it has
\* drawn and sent, the frames after which it has scheduled its next step
PoseProgress == <<pose.seeks, pose.drawn, pose.processedFrames>>

\* what a render pass has done: its seeks, its captured and its encoded frames
RenderProgress(p) == <<pass[p].seeks, pass[p].lframes, pass[p].handed>>

\* C15: once the overall timeout of an analysis or of a render has fired, the
\* pass issues no further seek, processes or captures no further frame and
\* schedules no further step.
C15_AbandonedAfterTimeout ==
    [][/\ pose.timeout = "fired" => PoseProgress' = PoseProgress
       /\ \A p \in Passes :
              pass[p].overallTimeout = "fired" => RenderProgress(p)' = RenderProgress(p)]_vars

\* C16: when the analysis timeout fires before the last frame has been
\* processed, the call fails with the timeout error and no analysis is
\* delivered to the caller, also after frame processing has reached its end
\* and built a result.
C16_TimeoutFailsAnalysis ==
    pose.timeout = "fired" => pose.outcome = "timeout" /\ pose.delivered = <<>>

C16_Witness ==
    /\ pose.timeout = "fired"
    /\ pose.st = "closed"
    /\ pose.processedFrames = MaxPoseFrames
    /\ Len(pose.built) = 1
    /\ pose.built[1].poses # <<>>
    /\ pose.outcome = "timeout"

\* C18: two calls in progress on one VideoLoopCreator use its canvas one at a
\* time: between a draw of one call and the capture of the drawn frame no step
\* of the other call resizes the canvas or draws on it.  The frame that
\* reaches a call's recorder is then the frame the call has put on the canvas
\* for it, or at least one the same call has drawn on a canvas it has sized.
C18_SurfaceOnePassAtATime ==
    \A p \in Passes :
        \A k \in 1..Len(pass[p].encoded) :
            \/ pass[p].encoded[k].img = pass[p].handed[k].img
            \/ /\ pass[p].encoded[k].sizedBy = p
               /\ pass[p].encoded[k].img.by \in {0, p}

\* C19: for every clip that yields at least one frame the simple analyzer
\* reports loopStart and loopEnd in seconds, 0 <= loopStart < loopEnd <=
\* duration, and the segment handed on for rendering is that time range.
C19_SimpleLoopInSeconds ==
    (simple.outcome = "result" /\ Len(simple.frameData) >= 1) =>
        LET result == simple.delivered[1]
        IN  /\ RLe(Zero, result.loopStart)
            /\ RLt(result.loopStart, result.loopEnd)
            /\ RLe(result.loopEnd, simple.v.dur)
            /\ \A k \in 1..Len(simple.options) :
                   /\ simple.options[k].startTime = result.loopStart
                   /\ simple.options[k].endTime = result.loopEnd

\* C20: a 10-second clip whose pictures repeat every 2 seconds, with one
\* movement that sets in and rises per cycle, is reported with at least one
\* repetition, a confidence of at least 0.6, and a loop whose length is one
\* cycle to within one sampling interval.
C20_CycleClipDetected ==
    (JustResolved /\ Latest.video \in CycleVideos) =>
        LET result == Latest.result
            cycle == Rat(Len(Latest.video.pat), 10)
            length == RSub(result.loopEnd, result.loopStart)
        IN  /\ result.repetitions >= 1
            /\ RLe(<<3, 5>>, result.confidence)
            /\ RLe(RAbs(RSub(length, cycle)), Rat(1, frameRate))

C20_Witness ==
    /\ JustResolved
    /\ Latest.video \in CycleVideos
    /\ Len(frames) = 100
    /\ Latest.result.repetitions >= 3
    /\ Latest.result.confidence = <<9, 10>>
    /\ RSub(Latest.result.loopEnd, Latest.result.loopStart) = <<2, 1>>

\* the motion scores of the frames read rise strictly from each frame to the next
StrictlyRising(fr) == \A k \in 1..(Len(fr) - 1) : RLt(fr[k].motion, fr[k + 1].motion)

\* C21: when the motion scores of the frames rise strictly over the whole
\* sequence, the detector finds at most one cycle start and records no
\* candidate; the analysis reports 0 repetitions, confidence 0.3 and the
\* fallback loop (the frames at one fifth and four fifths of the sequence).
C21_RisingMotionNoRepetition ==
    (JustResolved /\ Len(frames) >= 1 /\ StrictlyRising(frames)) =>
        LET n == Len(frames)
            endTime == frames[(4 * n) \div 5 + 1].time
            r == Latest.result
        IN  /\ Len(CycleStarts(frames)) <= 1
            /\ AllRepetitions(frames) = <<>>
            /\ r.repetitions = 0
            /\ r.confidence = <<3, 10>>
            /\ r.loopStart = frames[n \div 5 + 1].time
            /\ r.loopEnd = IF endTime = Zero THEN r.duration ELSE endTime

C21_Witness ==
    /\ JustResolved
    /\ Len(frames) = MaxRisingFrames
    /\ StrictlyRising(frames)
    /\ Len(CycleStarts(frames)) = 1
    /\ WindowSizes(Len(frames)) # <<>>
    /\ Latest.result.repetitions = 0
    /\ Latest.result.confidence = <<3, 10>>

\* comparePatterns: frameSimilarity = 1 - distance / hash1.length, which is
\* NaN (0 / 0) for an empty fingerprint
frameSimilarity(hash1, hash2) ==
    IF Len(hash1) = 0 THEN NaN
    ELSE Rat(Len(hash1) - Distance(hash1, hash2), Len(hash1))

\* C22: for any two fingerprints of one analysis the similarity
\* 1 - hammingDistance / length is a number in [0, 1], is the same in both
\* argument orders and is 1 when the fingerprints are equal; comparePatterns
\* of any non-empty window of the frames with itself is 1.
C22_SimilarityWellBehaved ==
    /\ \A i, j \in 1..Len(frames) :
           LET similarity == frameSimilarity(frames[i].hash, frames[j].hash)
           IN  /\ similarity # NaN
               /\ RLe(Zero, similarity)
               /\ RLe(similarity, <<1, 1>>)
               /\ similarity = frameSimilarity(frames[j].hash, frames[i].hash)
               /\ frames[i].hash = frames[j].hash => similarity = <<1, 1>>
    /\ \A a \in 0..Len(frames), b \in 0..Len(frames) :
           a < b => comparePatterns(HashSlice(frames, a, b), HashSlice(frames, a, b)) = <<1, 1>>

\* 0 <= startTime < endTime <= duration of the video
WithinVideo(v, startTime, endTime) ==
    RLe(Zero, startTime) /\ RLt(startTime, endTime) /\ RLe(endTime, v.dur)

\* C23: a createLoop call on a video that loads, with bounds that violate
\* 0 <= startTime < endTime <= duration, fails with the invalid-bounds error
\* and with nothing else; no recorder is created for it, no seek is issued,
\* no frame is drawn or stored and no blob is returned.
C23_InvalidBoundsRejected ==
    /\ \A p \in Passes :
           LET q == pass[p]
           IN  (q.kind = "loop" /\ q.v.ok /\ ~WithinVideo(q.v, q.start, q.end)) =>
                   /\ q.st \in {"loading", "closed"}
                   /\ q.outcome = IF q.st = "closed" THEN "invalid bounds" ELSE "pending"
                   /\ ~q.created /\ q.recorder = "inactive" /\ q.overallTimeout = "unset"
                   /\ q.seeks = <<>> /\ q.shown = NoImage
                   /\ q.lframes = <<>> /\ q.handed = <<>> /\ q.encoded = <<>>
                   /\ q.blob = <<>>
                   /\ surface.img = NoImage
    /\ (playback.st # "idle" /\ playback.v.ok
            /\ ~WithinVideo(playback.v, playback.start, playback.end)) =>
           /\ playback.st \in {"loading", "closed"}
           /\ playback.outcome = IF playback.st = "closed" THEN "invalid bounds" ELSE "pending"
           /\ ~playback.created /\ playback.recorder = "inactive" /\ playback.timer = "unset"
           /\ ~playback.seeking /\ ~playback.rendering /\ ~playback.playing
           /\ playback.canvas.at = <<-1, 1>>

C23_Witness ==
    \/ /\ mode = "render"
       /\ pass[1].kind = "loop" /\ pass[1].v.ok
       /\ RLt(pass[1].v.dur, pass[1].end) /\ RLe(Zero, pass[1].start)
       /\ pass[1].st = "closed" /\ pass[1].outcome = "invalid bounds"
    \/ /\ mode = "playback"
       /\ playback.v.ok
       /\ RLt(playback.v.dur, playback.end) /\ RLe(Zero, playback.start)
       /\ playback.st = "closed" /\ playback.outcome = "invalid bounds"

\* C24: a drill record built while the form was reached through a failure
\* reported for the selected video uses no value of an analysis result:
\* not for its duration, repetitions or accuracy, and not in its notes.
C24_FailureMeansUnprocessed ==
    \A k \in 1..Len(upload.mutation) :
        LET drill == upload.mutation[k]
        IN  drill.reached = "failure" =>
                /\ drill.duration.src # "analysis"
                /\ drill.repetitions.src # "analysis"
                /\ drill.accuracy.src # "analysis"
                /\ drill.notes.kind # "analysis"

\* the poses of the result delivered for call c: the array the result refers to
ResultPoses(c) == instance.arrays[instance.calls[c].delivered[1]]

\* C25: every pose entry in the result of an analyzeVideo call comes from a
\* frame of that call's own video and carries a time of that video: the
\* pass of an earlier call adds no entry to it.
C25_ResultFromOwnVideo ==
    \A c \in PoseCalls :
        instance.calls[c].delivered # <<>> =>
            \A n \in 1..Len(ResultPoses(c)) :
                /\ ResultPoses(c)[n].call = c
                /\ ResultPoses(c)[n].clock = c

\* C29: within one analyzeVideo invocation the frame-processing pass is
\* started at most once however often 'canplaythrough' is delivered, so at
\* most maxFrames frames are processed and they are processed in increasing
\* time order
C29_PassStartedOnce ==
    \A c \in PoseCalls :
        LET q == instance.calls[c]
        IN  /\ Len(q.passes) <= 1
            /\ Len(q.passes) >= 1 => Len(q.frames) <= q.maxFrames
            /\ \A n \in 1..(Len(q.frames) - 1) : RLt(q.frames[n], q.frames[n + 1])

\* C26: in the collect-then-encode renderer exactly one of the seeked, error
\* and 500 ms timer handlers stores a frame for each requested frame time:
\* once collection has ended the frame list holds exactly
\* N = ceil((endTime - startTime) * fps) frames, in increasing frame-time
\* order, and (frames only being appended) it stays so while it is encoded
C26_OneFramePerSeek ==
    \A p \in Passes :
        (pass[p].kind = "loop" /\ pass[p].st \in {"encoding", "finished"}) =>
            LET N == LoopFrames(pass[p].start, pass[p].end)
            IN  /\ Len(pass[p].lframes) = N
                /\ pass[p].frameTimes = [k \in 1..N |-> SeekTime(pass[p].start, k - 1)]

\* the position, in the detector's output, of the earliest candidate of
\* maximal score
BestCandidate(fr, reps) ==
    CHOOSE k \in 1..Len(reps) :
        /\ \A j \in 1..Len(reps) : RLe(Score(fr, reps, reps[j]), Score(fr, reps, reps[k]))
        /\ \A j \in 1..(k - 1) : RLt(Score(fr, reps, reps[j]), Score(fr, reps, reps[k]))

\* C27: when the detector returns candidates, loopStart and loopEnd are the
\* frame times of the candidate (s1, s2) of maximal score, score = (number of
\* candidates whose s2 - s1 differs from its own by less than 5) * (mean
\* motion of frames s1 .. s2-1); among candidates of equal maximal score the
\* earliest in the detector's output order is chosen.
C27_BestLoopMaximalScore ==
    (JustResolved /\ Len(frames) > 0 /\ Len(findRepetitions(frames)) > 0) =>
        LET reps == findRepetitions(frames)
            best == reps[BestCandidate(frames, reps)]
        IN  /\ Latest.result.loopStart = At(frames, best[1]).time
            /\ Latest.result.loopEnd = At(frames, best[2]).time

C27_Witness ==
    /\ JustResolved
    /\ Len(frames) > 0
    /\ LET reps == findRepetitions(frames)
       IN  /\ Len(reps) >= 3
           /\ BestCandidate(frames, reps) > 1
           /\ \E j \in 1..Len(reps) :
                  /\ j > BestCandidate(frames, reps)
                  /\ Score(frames, reps, reps[j]) =
                         Score(frames, reps, reps[BestCandidate(frames, reps)])
           /\ Latest.result.loopStart = At(frames, reps[BestCandidate(frames, reps)][1]).time

\* the pairs the detector records for window size w, in the order recorded
Recorded(fr, w) == RawForWindow(fr, CycleStarts(fr), w)

\* C28: every candidate (s1, s2) recorded for window size w has s1 < s2, both
\* s1 and s2 are cycle starts (motion[i-1] < 0.05, motion[i] > 0.05,
\* motion[i+1] > motion[i]) and both compared windows lie inside the frame
\* sequence (s2 + w <= frameCount): a pair whose second window would be cut
\* off at the end of the sequence is never recorded.
C28_WindowsInsideSequence ==
    (JustResolved /\ Len(frames) > 0) =>
        \A n \in 1..Len(WindowSizes(Len(frames))) :
            LET w == WindowSizes(Len(frames))[n]
                pairs == Recorded(frames, w)
            IN  \A k \in 1..Len(pairs) :
                    LET s1 == pairs[k][1]
                        s2 == pairs[k][2]
                    IN  /\ s1 < s2
                        /\ s1 >= 1 /\ s2 + 1 < Len(frames)
                        /\ RLt(At(frames, s1 - 1).motion, <<1, 20>>)
                        /\ RLt(<<1, 20>>, At(frames, s1).motion)
                        /\ RLt(At(frames, s1).motion, At(frames, s1 + 1).motion)
                        /\ RLt(At(frames, s2 - 1).motion, <<1, 20>>)
                        /\ RLt(<<1, 20>>, At(frames, s2).motion)
                        /\ RLt(At(frames, s2).motion, At(frames, s2 + 1).motion)
                        /\ s2 + w <= Len(frames)

\* a window size for which a pair is recorded, and for which the last cycle
\* start is so near the end that its window would be cut off
C28_Witness ==
    /\ JustResolved
    /\ Len(frames) > 0
    /\ \E n \in 1..Len(WindowSizes(Len(frames))) :
           LET w == WindowSizes(Len(frames))[n]
               cs == CycleStarts(frames)
           IN  /\ Len(Recorded(frames, w)) >= 1
               /\ Len(cs) >= 3
               /\ cs[Len(cs)] + w > Len(frames)
               /\ \A k \in 1..Len(Recorded(frames, w)) : Recorded(frames, w)[k][2] # cs[Len(cs)]

\* C30: every drill id held in a stored workout's drillIds refers to a drill
\* that is currently stored, and getWorkoutWithDrills returns one drill per
\* entry of drillIds, in drillIds order
C30_WorkoutDrillsStored ==
    \A k \in 1..Len(storage.workouts) :
        LET workout == storage.workouts[k]
            answer == getWorkoutWithDrills(storage, workout.id)
        IN  /\ \A n \in 1..Len(workout.drillIds) : workout.drillIds[n] \in Keys(storage.drills)
            /\ answer.found
            /\ Len(answer.drills) = Len(workout.drillIds)
            /\ \A n \in 1..Len(answer.drills) : answer.drills[n].id = workout.drillIds[n]

====
